---------------------------- MODULE Spec2Model ----------------------------
(***************************************************************************)
(* Waypoint quiz (src/app.js, the quiz build, lines 272-1589): the         *)
(* spaced-repetition scheduler, next-target selection and the tap judging  *)
(* state machine.                                                          *)
(*                                                                         *)
(* Conventions.  Timestamps are integer milliseconds; Date.now() is the    *)
(* variable now, counted from an arbitrary origin so that the session      *)
(* starts at T0 > 0 (a dueAt of 0 lies in the past, as in the program).    *)
(* Planar coordinates are rationals with denominator WorldDen; screen      *)
(* coordinates, viewport offsets and the viewport scale are integers.      *)
(* A waypoint is named by its id; stats[id] is the stats object that every *)
(* record of that waypoint shares by reference (the shallow copies made by *)
(* updateProjection keep the same stats object).  queuedNextTarget is left *)
(* out: the program assigns it (lines 732, 739, 745, 750, 787) and never   *)
(* reads it.                                                               *)
(***************************************************************************)
EXTENDS Integers, Sequences, FiniteSets, TLC

None == "none"

----------------------------------------------------------------------------
(* Bounds of the model *)

\* the clock advances at most MaxTicks times
MaxTicks == 1
\* a judgment is modelled only while the streak it increments is below these
MaxWrongStreak == 4
MaxCorrectStreak == 2
\* pointer-down and wheel events in one run
MaxInputs == 2
\* pointer-move events within one pinch
MaxPinchMoves == 2
\* steps of WaitMs the clock makes in one run
MaxWaits == 4
WaitMs == 75
\* steps of FlashStepMs the clock makes while flashes are followed
MaxFlashSteps == 3
\* the clock step while flash timers wait: half of revealFlashMs
FlashStepMs == 150

----------------------------------------------------------------------------
(* Program constants *)

MIN_SCALE == 1500
MAX_SCALE == 25000

tolerancePx == 18
wrongIntervalsMs == <<20000, 40000, 60000>>
correctNoWrongMs == 15 * 60 * 1000
correctWithWrongMs == 5 * 60 * 1000
\* correctStreakMultiplier 1.7 as the fraction 17/10
correctStreakMultiplierNum == 17
correctStreakMultiplierDen == 10
maxCorrectIntervalMs == 2 * 60 * 60 * 1000
revealFlashMs == 300
\* Math.random() * 2000 in chooseNextTarget: a jitter in [0, 2000)
JitterMs == 2000

----------------------------------------------------------------------------
(* The data a load can deliver: waypoints W1 and W2 lie 20 px apart at the *)
(* fitted scale and belong to different FIRs; W3 lies far from both.       *)

AllIds == {"W1", "W2", "W3"}
TwoWaypoints == <<"W1", "W2">>
ThreeWaypoints == <<"W1", "W2", "W3">>

FirOf(w) == IF w = "W2" THEN "LZBB" ELSE "EPWW"

\* planar coordinates (projection.project(lon, lat)) as numerators over WorldDen
WorldDen == 1000
PlanarX(w) == CASE w = "W1" -> 100 [] w = "W2" -> 105 [] OTHER -> 200
PlanarY(w) == CASE w = "W1" -> 50 [] w = "W2" -> 50 [] OTHER -> 100

\* bounding box of the WARSZAWA FIR boundary in planar coordinates (over WorldDen)
FirBounds == [minX |-> 0, maxX |-> 240, minY |-> 0, maxY |-> 120]

\* the clock: session start and the step of one Tick
T0 == 1000000
TickMs == 900000

----------------------------------------------------------------------------
(* Sequence helpers *)

Range(s) == {s[i] : i \in 1..Len(s)}

Min2(a, b) == IF a <= b THEN a ELSE b
Max2(a, b) == IF a >= b THEN a ELSE b

RECURSIVE Pow(_, _)
Pow(b, e) == IF e = 0 THEN 1 ELSE b * Pow(b, e - 1)

----------------------------------------------------------------------------
(* Scheduler: stats and intervals *)

StatFields == {"wrongStreak", "correctStreak", "dueAt", "lastShownAt", "seen", "hasAnswered"}

defaultStats ==
  [wrongStreak |-> 0, correctStreak |-> 0, dueAt |-> 0, lastShownAt |-> 0,
   seen |-> FALSE, hasAnswered |-> FALSE]

wrongInterval_OffByOne(streak) ==
  IF streak <= 0 THEN wrongIntervalsMs[1]
  ELSE wrongIntervalsMs[Min2(streak, Len(wrongIntervalsMs) - 1) + 1]

\* index = min(streak - 1, length - 1), 0-based in the program
wrongInterval(streak) ==
  IF streak <= 0 THEN wrongIntervalsMs[1]
  ELSE wrongIntervalsMs[Min2(streak - 1, Len(wrongIntervalsMs) - 1) + 1]

baseCorrectInterval_Always15(wrongsBeforeCorrect) == correctNoWrongMs

baseCorrectInterval(wrongsBeforeCorrect) ==
  IF wrongsBeforeCorrect = 0 THEN correctNoWrongMs
  ELSE IF wrongsBeforeCorrect <= 2 THEN correctWithWrongMs
  ELSE correctWithWrongMs

\* streakMultiplier = correctStreak > 1 ? pow(1.7, correctStreak - 1) : 1,
\* as numerator and denominator
streakMultiplierNum(correctStreak) ==
  IF correctStreak > 1 THEN Pow(correctStreakMultiplierNum, correctStreak - 1) ELSE 1
streakMultiplierDen(correctStreak) ==
  IF correctStreak > 1 THEN Pow(correctStreakMultiplierDen, correctStreak - 1) ELSE 1

\* All three interval constants are multiples of IntervalUnit; the comparison
\* with the cap is made in that unit to stay inside 32-bit integers.
IntervalUnit == 100000

correctInterval_NoCap(base, correctStreak) ==
  (base \div streakMultiplierDen(correctStreak)) * streakMultiplierNum(correctStreak)

\* interval = min(base * streakMultiplier, maxCorrectIntervalMs), exact:
\* base*num/den >= max  <=>  base*num >= max*den.  Below the cap the
\* exponent is at most 5 and den divides base, so the quotient is exact.
correctInterval(base, correctStreak) ==
  LET num == streakMultiplierNum(correctStreak)
      den == streakMultiplierDen(correctStreak)
  IN IF (base \div IntervalUnit) * num >= (maxCorrectIntervalMs \div IntervalUnit) * den
     THEN maxCorrectIntervalMs
     ELSE (base \div den) * num

applyWrong_KeepsCorrectStreak(s, t) ==
  LET streak == s.wrongStreak + 1
  IN [s EXCEPT !.wrongStreak = streak,
               !.hasAnswered = TRUE,
               !.dueAt = t + wrongInterval(streak),
               !.lastShownAt = t]

\* the stats object after applyWrong at time t
applyWrong(s, t) ==
  LET streak == s.wrongStreak + 1
  IN [s EXCEPT !.wrongStreak = streak,
               !.correctStreak = 0,
               !.hasAnswered = TRUE,
               !.dueAt = t + wrongInterval(streak),
               !.lastShownAt = t]

\* the stats object after applyCorrect at time t
applyCorrect(s, wrongsBeforeCorrect, t) ==
  LET streak == s.correctStreak + 1
      base == baseCorrectInterval(wrongsBeforeCorrect)
  IN [s EXCEPT !.wrongStreak = 0,
               !.correctStreak = streak,
               !.hasAnswered = TRUE,
               !.dueAt = t + correctInterval(base, streak),
               !.lastShownAt = t]

----------------------------------------------------------------------------
(* Scheduler: choosing the next target *)

\* randomItem: Math.floor(Math.random() * length) reaches every index
randomItem(list) == IF Len(list) = 0 THEN {None} ELSE Range(list)

Pool_NoExclusion(availableWaypoints, excludeId) == availableWaypoints

\* pool = excludeId ? available.filter(wp => wp.id !== excludeId) : available
Pool(availableWaypoints, excludeId) ==
  IF excludeId # None
  THEN SelectSeq(availableWaypoints, LAMBDA w : w # excludeId)
  ELSE availableWaypoints

\* the group the forEach body pushes a waypoint with stats s into, at time t
GroupOf(s, t) ==
  IF s.hasAnswered /\ s.dueAt <= t THEN "A"
  ELSE IF ~s.seen THEN "B"
  ELSE IF s.hasAnswered THEN "C"
  ELSE "none"

Group(pool, st, t, g) == SelectSeq(pool, LAMBDA w : GroupOf(st[w], t) = g)

SelectedGroup_UnseenFirst(groupA, groupB, groupC) ==
  IF Len(groupB) > 0 THEN "B"
  ELSE IF Len(groupA) > 0 THEN "A"
  ELSE IF Len(groupC) > 0 THEN "C"
  ELSE "pool"

SelectedGroup_AnsweredBeforeUnseen(groupA, groupB, groupC) ==
  IF Len(groupA) > 0 THEN "A"
  ELSE IF Len(groupC) > 0 THEN "C"
  ELSE IF Len(groupB) > 0 THEN "B"
  ELSE "pool"

\* the cascade of returns: the first non-empty of groupA, groupB, groupC,
\* else the whole pool
SelectedGroup(groupA, groupB, groupC) ==
  IF Len(groupA) > 0 THEN "A"
  ELSE IF Len(groupB) > 0 THEN "B"
  ELSE IF Len(groupC) > 0 THEN "C"
  ELSE "pool"

JitterSteps_Inclusive == {0, 2 * JitterMs}

\* The jitter Math.random() * 2000 is a real in [0, 2000).  With integer
\* dueAt only its extremes decide who can come first, so values are compared
\* in half-milliseconds: 2 * dueAt + j with j = 0 or j = 2 * JitterMs - 1.
JitterSteps == {0, 2 * JitterMs - 1}

\* jittered.sort((a, b) => a.value - b.value)[0]: the least value, and among
\* equal values the one that comes first in groupC (the sort is stable)
FirstAfterSort(groupC, value) ==
  groupC[CHOOSE i \in 1..Len(groupC) :
           \A k \in 1..Len(groupC) :
              \/ value[groupC[i]] < value[groupC[k]]
              \/ value[groupC[i]] = value[groupC[k]] /\ i <= k]

JitteredFirst(groupC, st) ==
  { FirstAfterSort(groupC, [w \in Range(groupC) |-> 2 * st[w].dueAt + j[w]]) :
      j \in [Range(groupC) -> JitterSteps] }

\* chooseNextTarget: the set of waypoints a call can return ({None} for null)
chooseNextTarget(availableWaypoints, excludeId, st, t) ==
  LET pool == Pool(availableWaypoints, excludeId)
      groupA == Group(pool, st, t, "A")
      groupB == Group(pool, st, t, "B")
      groupC == Group(pool, st, t, "C")
      sel == SelectedGroup(groupA, groupB, groupC)
  IN IF Len(pool) = 0 THEN {None}
     ELSE CASE sel = "A" -> randomItem(groupA)
            [] sel = "B" -> randomItem(groupB)
            [] sel = "C" -> JitteredFirst(groupC, st)
            [] OTHER -> randomItem(pool)

----------------------------------------------------------------------------
(* Persistent store *)

\* a key that localStorage does not hold
NoRec == [absent |-> TRUE]

Truthy(rec, f) == f \in DOMAIN rec /\ rec[f] # 0

\* mergeStoredStats for one waypoint: { ...defaultStats(), ...stored }, then
\* hasAnswered and seen are kept when they are booleans
mergeStoredStats(raw) ==
  LET stored == IF raw = NoRec THEN [f \in {} |-> 0] ELSE raw
      merged == [f \in StatFields |->
                   IF f \in DOMAIN stored THEN stored[f] ELSE defaultStats[f]]
      hasAnswered == IF merged.hasAnswered \in BOOLEAN
                     THEN merged.hasAnswered
                     ELSE \/ Truthy(stored, "dueAt")
                          \/ Truthy(stored, "lastShownAt")
                          \/ Truthy(stored, "correctStreak")
                          \/ Truthy(stored, "wrongStreak")
      seen == IF merged.seen \in BOOLEAN THEN merged.seen ELSE hasAnswered
  IN [merged EXCEPT !.hasAnswered = hasAnswered, !.seen = seen]

\* uniqueFIRs: the distinct region codes, sorted
uniqueFIRs(list) ==
  LET firs == {FirOf(w) : w \in Range(list)}
  IN IF firs = {} THEN <<>>
     ELSE IF firs = {"EPWW"} THEN <<"EPWW">>
     ELSE IF firs = {"LZBB"} THEN <<"LZBB">>
     ELSE <<"EPWW", "LZBB">>

\* restoreEnabledFIRs: valid stored codes followed by the missing ones, or
\* all codes when nothing valid is stored (an absent key reads as '[]')
restoreEnabledFIRs(allFIRs, storedFIRs) ==
  LET stored == storedFIRs
      valid == SelectSeq(stored, LAMBDA f : f \in Range(allFIRs))
      missing == SelectSeq(allFIRs, LAMBDA f : f \notin Range(valid))
  IN IF Len(valid) > 0 THEN Range(valid) \cup Range(missing) ELSE Range(allFIRs)

----------------------------------------------------------------------------
(* Camera and hit-testing *)

clampScale(value) == Min2(Max2(value, MIN_SCALE), MAX_SCALE)

\* worldToScreen of a waypoint: x * scale + offsetX
ScreenX(w, vp) == (PlanarX(w) * vp.scale) \div WorldDen + vp.offsetX
ScreenY(w, vp) == (PlanarY(w) * vp.scale) \div WorldDen + vp.offsetY

\* screenToWorld(sx, sy) minus the waypoint's planar position, as numerators
\* over the common denominator scale * WorldDen:
\*   (sx - offsetX) / scale - X / WorldDen
DeltaX(sx, w, vp) == (sx - vp.offsetX) * WorldDen - PlanarX(w) * vp.scale
DeltaY(sy, w, vp) == (sy - vp.offsetY) * WorldDen - PlanarY(w) * vp.scale

Abs(n) == IF n < 0 THEN -n ELSE n

\* toleranceWorld = tolerancePx / scale, over the same denominator
ToleranceNum == tolerancePx * WorldDen

\* a tolerance that is fixed in planar units, at what 18 px are at scale 4000
WithinTolerance_FixedPlanar(sx, sy, w, vp) ==
  /\ Abs(DeltaX(sx, w, vp)) <= (ToleranceNum * vp.scale) \div 4000
  /\ Abs(DeltaY(sy, w, vp)) <= (ToleranceNum * vp.scale) \div 4000
  /\ DeltaX(sx, w, vp) * DeltaX(sx, w, vp) + DeltaY(sy, w, vp) * DeltaY(sy, w, vp)
       <= ((ToleranceNum * vp.scale) \div 4000) * ((ToleranceNum * vp.scale) \div 4000)

\* Math.hypot(dx, dy) <= toleranceWorld; the squares are taken only when
\* both legs are within the tolerance, which keeps them small
WithinTolerance(sx, sy, w, vp) ==
  /\ Abs(DeltaX(sx, w, vp)) <= ToleranceNum
  /\ Abs(DeltaY(sy, w, vp)) <= ToleranceNum
  /\ DeltaX(sx, w, vp) * DeltaX(sx, w, vp) + DeltaY(sy, w, vp) * DeltaY(sy, w, vp)
       <= ToleranceNum * ToleranceNum

DistSq(sx, sy, w, vp) ==
  DeltaX(sx, w, vp) * DeltaX(sx, w, vp) + DeltaY(sy, w, vp) * DeltaY(sy, w, vp)

\* findTappedWaypoint: the nearest visible waypoint within tolerance, the
\* first in list order among equally near ones; None when there is none
findTappedWaypoint(sx, sy, visible, vp) ==
  LET near == SelectSeq(visible, LAMBDA w : WithinTolerance(sx, sy, w, vp))
  IN IF Len(near) = 0 THEN None
     ELSE near[CHOOSE i \in 1..Len(near) :
                 \A k \in 1..Len(near) :
                    \/ DistSq(sx, sy, near[i], vp) < DistSq(sx, sy, near[k], vp)
                    \/ DistSq(sx, sy, near[i], vp) = DistSq(sx, sy, near[k], vp) /\ i <= k]

\* fitViewToBounds: the scale that fits the bounds at targetFill = 1.2 and
\* the offsets that centre them (exact for the canvas sizes and data used)
targetFillNum == 12
targetFillDen == 10

FitSpan(lo, hi) == IF hi - lo = 0 THEN WorldDen ELSE hi - lo

fitViewToBounds(bounds, cv) ==
  LET spanX == FitSpan(bounds.minX, bounds.maxX)
      spanY == FitSpan(bounds.minY, bounds.maxY)
      scale == clampScale(Min2((cv.width * targetFillNum * WorldDen) \div (targetFillDen * spanX),
                               (cv.height * targetFillNum * WorldDen) \div (targetFillDen * spanY)))
  IN [scale |-> scale,
      offsetX |-> cv.width \div 2 - ((bounds.minX + bounds.maxX) * scale) \div (2 * WorldDen),
      offsetY |-> cv.height \div 2 - ((bounds.minY + bounds.maxY) * scale) \div (2 * WorldDen)]

\* computeRegionBounds('WARSZAWA FIR', 'EPWW'): the boundary's box widened by
\* the EPWW waypoints; no bounds when there is neither
computeRegionBounds(fir, wps) ==
  LET own == {w \in Range(wps) : FirOf(w) = "EPWW"}
      xs == (IF fir = None THEN {} ELSE {FirBounds.minX, FirBounds.maxX}) \cup {PlanarX(w) : w \in own}
      ys == (IF fir = None THEN {} ELSE {FirBounds.minY, FirBounds.maxY}) \cup {PlanarY(w) : w \in own}
  IN IF xs = {} THEN [none |-> TRUE]
     ELSE [minX |-> CHOOSE x \in xs : \A z \in xs : x <= z,
           maxX |-> CHOOSE x \in xs : \A z \in xs : x >= z,
           minY |-> CHOOSE y \in ys : \A z \in ys : y <= z,
           maxY |-> CHOOSE y \in ys : \A z \in ys : y >= z]

updateVisibleWaypoints_NoFilter(enabled, wps) == wps

\* updateVisibleWaypoints
updateVisibleWaypoints(enabled, wps) ==
  IF enabled # {} THEN SelectSeq(wps, LAMBDA w : FirOf(w) \in enabled) ELSE <<>>

----------------------------------------------------------------------------
(* Exact arithmetic for the camera.  A rational is [n, d] in lowest terms   *)
(* with d > 0; the program's floating-point rounding is left out.           *)

RECURSIVE Gcd(_, _)
Gcd(a, b) == IF b = 0 THEN a ELSE Gcd(b, a % b)

Rat(n, d) == LET g == Gcd(Abs(n), d) IN [n |-> n \div g, d |-> d \div g]
RatOf(i) == [n |-> i, d |-> 1]

RatAdd(a, b) == Rat(a.n * b.d + b.n * a.d, a.d * b.d)
RatSub(a, b) == Rat(a.n * b.d - b.n * a.d, a.d * b.d)
\* the product, cancelling across before multiplying
RatMul(a, b) ==
  LET g1 == Gcd(Abs(a.n), b.d)
      g2 == Gcd(Abs(b.n), a.d)
  IN [n |-> (a.n \div g1) * (b.n \div g2), d |-> (a.d \div g2) * (b.d \div g1)]
\* the quotient by a non-zero rational
RatDiv(a, b) ==
  RatMul(a, IF b.n > 0 THEN [n |-> b.d, d |-> b.n] ELSE [n |-> -b.d, d |-> -b.n])
RatLE(a, b) == a.n * b.d <= b.n * a.d
RatMin(a, b) == IF RatLE(a, b) THEN a ELSE b
RatMax(a, b) == IF RatLE(a, b) THEN b ELSE a
IsInt(a) == a.d = 1

----------------------------------------------------------------------------
(* Camera: pan and zoom *)

DRAG_DISTANCE_THRESHOLD == 10
TAP_COOLDOWN_MS == 150

\* clampScale of a rational value between the scale limits lo and hi
clampScaleIn(value, lo, hi) == RatMin(RatMax(value, RatOf(lo)), RatOf(hi))

\* worldToScreen of a planar point with rational coordinates
worldToScreen(p, vp) ==
  [x |-> RatAdd(RatMul(p.x, RatOf(vp.scale)), RatOf(vp.offsetX)),
   y |-> RatAdd(RatMul(p.y, RatOf(vp.scale)), RatOf(vp.offsetY))]

screenToWorld_NoOffset(x, y, vp) ==
  [x |-> RatDiv(x, RatOf(vp.scale)), y |-> RatDiv(y, RatOf(vp.scale))]

\* screenToWorld of a screen point with rational coordinates
screenToWorld(x, y, vp) ==
  [x |-> RatDiv(RatSub(x, RatOf(vp.offsetX)), RatOf(vp.scale)),
   y |-> RatDiv(RatSub(y, RatOf(vp.offsetY)), RatOf(vp.scale))]

\* the viewport a zoom call leaves when it returns early
SameView(vp) ==
  [scale |-> RatOf(vp.scale), offsetX |-> RatOf(vp.offsetX), offsetY |-> RatOf(vp.offsetY),
   render |-> FALSE]

\* setScaleAt(pointX, pointY, nextScale) under the scale limits lo and hi:
\* the viewport it leaves, and whether it requested a redraw
setScaleAtIn(lo, hi, pointX, pointY, nextScale, vp) ==
  LET clamped == clampScaleIn(nextScale, lo, hi)
      worldPoint == screenToWorld(pointX, pointY, vp)
  IN IF clamped = RatOf(vp.scale) THEN SameView(vp)
     ELSE [scale |-> clamped,
           offsetX |-> RatSub(pointX, RatMul(worldPoint.x, clamped)),
           offsetY |-> RatSub(pointY, RatMul(worldPoint.y, clamped)),
           render |-> TRUE]

setScaleAt(pointX, pointY, nextScale, vp) ==
  setScaleAtIn(MIN_SCALE, MAX_SCALE, pointX, pointY, nextScale, vp)

\* zoomAt(pointX, pointY, factor) under the scale limits lo and hi
zoomAtIn(lo, hi, pointX, pointY, factor, vp) ==
  LET prevScale == RatOf(vp.scale)
      nextScale == clampScaleIn(RatMul(prevScale, factor), lo, hi)
      worldPoint == screenToWorld(pointX, pointY, vp)
  IN IF nextScale = prevScale THEN SameView(vp)
     ELSE [scale |-> nextScale,
           offsetX |-> RatSub(pointX, RatMul(worldPoint.x, nextScale)),
           offsetY |-> RatSub(pointY, RatMul(worldPoint.y, nextScale)),
           render |-> TRUE]

zoomAt_KeepsOffsets(pointX, pointY, factor, vp) ==
  [zoomAtIn(MIN_SCALE, MAX_SCALE, pointX, pointY, factor, vp)
     EXCEPT !.offsetX = RatOf(vp.offsetX), !.offsetY = RatOf(vp.offsetY)]

zoomAt(pointX, pointY, factor, vp) ==
  zoomAtIn(MIN_SCALE, MAX_SCALE, pointX, pointY, factor, vp)

\* The viewport of the model holds whole numbers: a zoom is modelled at the
\* points and factors that leave the scale and both offsets whole.
Whole(z) == IsInt(z.scale) /\ IsInt(z.offsetX) /\ IsInt(z.offsetY)
ToViewport(z) == [scale |-> z.scale.n, offsetX |-> z.offsetX.n, offsetY |-> z.offsetY.n]

\* Math.hypot where one leg is 0: the pinches modelled keep both pointers on
\* a horizontal or a vertical line
ExactHypot(dx, dy) == dx = 0 \/ dy = 0
Hypot(dx, dy) == Abs(dx) + Abs(dy)

distanceBetweenPoints(pointA, pointB) == Hypot(pointA.x - pointB.x, pointA.y - pointB.y)
centerBetweenPoints(pointA, pointB) ==
  [x |-> Rat(pointA.x + pointB.x, 2), y |-> Rat(pointA.y + pointB.y, 2)]

\* dragDistance > DRAG_DISTANCE_THRESHOLD, on the squares
BeyondDragThreshold(x, y, startX, startY) ==
  (x - startX) * (x - startX) + (y - startY) * (y - startY)
    > DRAG_DISTANCE_THRESHOLD * DRAG_DISTANCE_THRESHOLD

\* toleranceWorld = (QUIZ_CONFIG.tolerancePx || 18) / viewport.scale
toleranceWorld(vp) == Rat(tolerancePx, vp.scale)

PinchScale_FromCurrentScale(center, distance, pinch, vp) ==
  setScaleAt(center.x, center.y,
             RatMul(RatOf(vp.scale), Rat(distance, pinch.startDistance)), vp)

\* updatePinch: setScaleAt(center.x, center.y, pinchState.startScale * factor)
\* with factor = distance / pinchState.startDistance
PinchScale(center, distance, pinch, vp) ==
  setScaleAt(center.x, center.y,
             RatMul(RatOf(pinch.startScale), Rat(distance, pinch.startDistance)), vp)

IsTap_WhileDragging(isActive, isDragging, pinchActive) == isActive /\ ~pinchActive

\* endPointer's tap branch: the pointer is the active one, it is not
\* dragging, and no pinch is under way
IsTap(isActive, isDragging, pinchActive) == isActive /\ ~isDragging /\ ~pinchActive

CooldownPassed_Always(t, lastTapTime) == TRUE

\* now - pointerState.lastTapTime >= TAP_COOLDOWN_MS
CooldownPassed(t, lastTapTime) == t - lastTapTime >= TAP_COOLDOWN_MS

----------------------------------------------------------------------------
(* State *)

VARIABLES
  loadState,            \* position of init(): "constructed", "loading", "ready", "failed"
  initializationError,
  firGeoJSON,
  waypoints,
  recordStats,          \* waypoint id -> the stats object its record in waypoints holds
  visibleWaypoints,
  firOptions,
  enabledFIRs,
  stats,                \* waypoint id -> its stats object
  currentTarget,
  targetStats,          \* the stats object the record currentTarget refers to holds
  currentWrongCount,
  revealState,
  intervalTimers,       \* ids of the live setInterval timers
  renderScheduled,
  frameCallbacks,       \* observation: frame callbacks for render that are queued
  viewport,
  canvas,
  projection,
  epwwBounds,
  localStore,           \* localStorage: stats per waypoint id, enabled FIR list
  storageWritable,      \* FALSE: every localStorage.setItem throws
  now,                  \* Date.now()
  lastEvent,            \* observation: what the last event was
  wrongRun,             \* observation: incorrect judgments on the target since it became the target
  pointerPositions,     \* pointer id -> canvas point of the pointers that are down
  pointerState,
  panState,
  pinchState,
  pointerTrace,         \* observation: what the pointers that are down have done so far
  waypointFeedback,     \* waypoint id -> the flash {color, expiresAt} set on it
  timeouts,             \* the setTimeout callbacks of flashWaypointFeedback that have not run
  feedbackObserved      \* FALSE: the behaviours leave the feedback flashes out

quizVars == <<currentTarget, targetStats, currentWrongCount, revealState, intervalTimers>>
dataVars == <<loadState, initializationError, firGeoJSON, waypoints, recordStats, visibleWaypoints,
              firOptions, enabledFIRs>>
viewVars == <<viewport, canvas, projection, epwwBounds>>
inputVars == <<pointerPositions, pointerState, panState, pinchState, pointerTrace>>
vars == <<loadState, initializationError, firGeoJSON, waypoints, recordStats, visibleWaypoints,
          firOptions, enabledFIRs, stats, currentTarget, targetStats,
          currentWrongCount, revealState, intervalTimers, renderScheduled, frameCallbacks, viewport,
          canvas, projection, epwwBounds, localStore, storageWritable, now,
          lastEvent, wrongRun, pointerPositions, pointerState, panState, pinchState,
          pointerTrace, waypointFeedback, timeouts, feedbackObserved>>
flashVars == <<waypointFeedback, timeouts, feedbackObserved>>

\* no waypoint records yet
NoRecords == [w \in {} |-> None]
\* the stats object a record holds (none for no record)
StatsOfRecord(records, w) == IF w = None THEN None ELSE records[w]

CopyStats_Dropped(object) == None

\* { ...wp, x, y } in updateProjection: the new record holds the same stats
\* object as the record it is copied from
CopyStats(object) == object

\* new Map()
NoFeedback == [w \in {} |-> [color |-> "wrong", expiresAt |-> 0]]
\* Map.set and Map.delete
MapSet(map, key, value) == [k \in DOMAIN map \cup {key} |-> IF k = key THEN value ELSE map[k]]
MapDelete(map, keys) == [k \in DOMAIN map \ keys |-> map[k]]

QueueFrame_Always(scheduled, callbacks) == callbacks + 1

\* requestAnimationFrame(render) in requestRender: skipped when a frame is
\* already scheduled
QueueFrame(scheduled, callbacks) == IF scheduled THEN callbacks ELSE callbacks + 1

\* the frame callbacks queued after that many calls of requestRender, the
\* first of which sets renderScheduled
RECURSIVE QueueFrames(_, _, _)
QueueFrames(calls, scheduled, callbacks) ==
  IF calls = 0 THEN callbacks
  ELSE QueueFrames(calls - 1, TRUE, QueueFrame(scheduled, callbacks))

\* a handler that calls requestRender that many times (at least once)
requestRenders(calls) ==
  /\ renderScheduled' = TRUE
  /\ frameCallbacks' = QueueFrames(calls, renderScheduled, frameCallbacks)

requestRender == requestRenders(1)

\* a handler that calls requestRender on some of its paths only
requestRenderIf(requested) ==
  IF requested THEN requestRender ELSE UNCHANGED <<renderScheduled, frameCallbacks>>

\* The observation variable after an event of the given kind: wrongRun
\* counts the "tapWrong" events since the target last changed or was answered
\* correctly.
Observe(kind) ==
  wrongRun' = IF kind = "tapWrong" THEN wrongRun + 1
              ELSE IF kind = "tapCorrect" \/ currentTarget' # currentTarget THEN 0
              ELSE wrongRun

\* lastEvent: the kind of the event, the target it met (was judged against), the
\* value of wrongRun before it, the wrongsBeforeCorrect it passed to
\* applyCorrect, and the waypoint findTappedWaypoint returned to it
Event(kind, wp, run, arg) ==
  [kind |-> kind, wp |-> wp, wrongRun |-> run, arg |-> arg, tapped |-> None]
OtherEvent == Event("other", None, 0, 0)

\* { active: false, visible: true, timerId: null }; timer ids are positive
NoReveal == [active |-> FALSE, visible |-> TRUE, timerId |-> 0]

\* no bounds (null)
NoBounds == [none |-> TRUE]

\* no pointer is down: the initial pointerState, panState and pinchState
\* (activeId null is 0, pointer ids are positive)
NoPointers == [id \in {} |-> [x |-> 0, y |-> 0]]
IdlePointerState ==
  [activeId |-> 0, startX |-> 0, startY |-> 0, lastX |-> 0, lastY |-> 0,
   isDragging |-> FALSE, lastTapTime |-> 0]
IdlePanState == [active |-> FALSE, lastX |-> 0, lastY |-> 0]
IdlePinchState ==
  [active |-> FALSE, startDistance |-> 0, startScale |-> 1,
   centerX |-> RatOf(0), centerY |-> RatOf(0)]

\* pointerTrace: for every pointer that is down, where it went down, whether
\* a move took it further than the drag threshold from there, and whether
\* another pointer was down with it; the time (-1: none yet) and the canvas
\* point of the last call of handleCanvasTap from a pointer-up; the number of
\* moves of the pinch under way; the number of pointer-down and wheel events
\* so far
NoTrace ==
  [down |-> [id \in {} |-> [x |-> 0, y |-> 0, far |-> FALSE, multi |-> FALSE]],
   tapAt |-> -1, tapX |-> 0, tapY |-> 0, moves |-> 0, inputs |-> 0]

InputsIdle ==
  /\ pointerPositions = NoPointers
  /\ pointerState = IdlePointerState
  /\ panState = IdlePanState
  /\ pinchState = IdlePinchState
  /\ pointerTrace = NoTrace

\* the canvas sizes a resize can produce
CanvasSizes == {[width |-> 800, height |-> 600]}

\* What an earlier session of this program can have left in localStorage:
\* nothing; or W1 missed three times and W2 answered correctly once, W3 shown
\* but never answered.
EmptyStore == [stats |-> [w \in AllIds |-> NoRec], fir |-> <<>>]
EarlierStore ==
  [stats |-> [w \in AllIds |->
                CASE w = "W1" -> [wrongStreak |-> 3, correctStreak |-> 0,
                                  dueAt |-> T0 - 1000 + 60000, lastShownAt |-> T0 - 1000,
                                  seen |-> TRUE, hasAnswered |-> TRUE]
                  [] w = "W2" -> [wrongStreak |-> 0, correctStreak |-> 1,
                                  dueAt |-> T0 - 2000 + 900000, lastShownAt |-> T0 - 2000,
                                  seen |-> TRUE, hasAnswered |-> TRUE]
                  [] OTHER -> [defaultStats EXCEPT !.seen = TRUE]],
   fir |-> <<"EPWW", "LZBB">>]
InitialStores == {EmptyStore, EarlierStore}

\* the state after the script has run, with the feedback flashes followed or not
Constructed ==
  /\ loadState = "constructed"
  /\ initializationError = None
  /\ firGeoJSON = None
  /\ waypoints = <<>>
  /\ recordStats = NoRecords
  /\ visibleWaypoints = <<>>
  /\ firOptions = <<>>
  /\ enabledFIRs = {}
  /\ stats = [w \in {} |-> defaultStats]
  /\ currentTarget = None
  /\ targetStats = None
  /\ currentWrongCount = 0
  /\ revealState = NoReveal
  /\ intervalTimers = {}
  /\ renderScheduled = FALSE
  /\ frameCallbacks = 0
  /\ waypointFeedback = NoFeedback
  /\ timeouts = {}
  /\ viewport = [scale |-> 1, offsetX |-> 0, offsetY |-> 0]
  /\ canvas = [width |-> 300, height |-> 150]
  /\ projection = None
  /\ epwwBounds = NoBounds
  /\ localStore \in InitialStores
  /\ storageWritable \in BOOLEAN
  /\ now = T0
  /\ lastEvent = OtherEvent
  /\ wrongRun = 0
  /\ InputsIdle

Init == Constructed /\ feedbackObserved = FALSE

----------------------------------------------------------------------------
(* Building blocks of the handlers *)

\* persistWaypointStats: setItem of the serialized stats, a throw is caught
persistWaypointStats(store, w, s) ==
  IF storageWritable THEN [store EXCEPT !.stats[w] = s] ELSE store

\* persistEnabledFIRs: setItem of the enabled list (kept in firOptions order)
persistEnabledFIRs(store, enabled) ==
  IF storageWritable
  THEN [store EXCEPT !.fir = SelectSeq(firOptions, LAMBDA f : f \in enabled)]
  ELSE store

SeenStats_OnlyWhenWritable(st, w) ==
  IF w = None \/ st[w].seen \/ ~storageWritable THEN st ELSE [st EXCEPT ![w].seen = TRUE]

\* markWaypointSeen on the stats map and on the store
SeenStats(st, w) ==
  IF w = None \/ st[w].seen THEN st ELSE [st EXCEPT ![w].seen = TRUE]
SeenStore(store, st, w) ==
  IF w = None \/ st[w].seen THEN store
  ELSE persistWaypointStats(store, w, [st[w] EXCEPT !.seen = TRUE])

StopRevealMode_KeepsTimer ==
  /\ UNCHANGED intervalTimers
  /\ revealState' = NoReveal

\* stopRevealMode: clears the interval when timerId is set
StopRevealMode ==
  /\ intervalTimers' = IF revealState.timerId # 0
                       THEN intervalTimers \ {revealState.timerId}
                       ELSE intervalTimers
  /\ revealState' = NoReveal

\* startRevealMode: nothing when already active, else a new interval timer
FreshTimerId == CHOOSE i \in 1..(Cardinality(intervalTimers) + 1) : i \notin intervalTimers

StartRevealMode ==
  IF revealState.active
  THEN UNCHANGED <<revealState, intervalTimers>>
  ELSE /\ revealState' = [active |-> TRUE, visible |-> TRUE, timerId |-> FreshTimerId]
       /\ intervalTimers' = intervalTimers \cup {FreshTimerId}

takeQueuedNextTarget_NoExclusion(visible, cur, st, t) ==
  IF Len(visible) = 0 THEN {None} ELSE chooseNextTarget(visible, None, st, t)

\* takeQueuedNextTarget: what it can return for the target cur
takeQueuedNextTarget(visible, cur, st, t) ==
  LET available == SelectSeq(visible, LAMBDA w : w # cur)
  IN IF Len(visible) = 0 THEN {None}
     ELSE IF Len(available) = 0 THEN {None}
     ELSE chooseNextTarget(available, None, st, t)

TargetInvalid_OnlyWhenNone(target, enabled) == target = None

\* if (!currentTarget || !enabledFIRs.has(currentTarget.fir))
TargetInvalid(target, enabled) == target = None \/ FirOf(target) \notin enabled

\* updateCurrentTarget, run with the enabled set, visible list, stats and
\* store that the caller has just produced
UpdateCurrentTarget(enabled, visible, records, st, store) ==
  IF enabled = {} \/ Len(visible) = 0
  THEN /\ StopRevealMode
       /\ currentTarget' = None
       /\ targetStats' = None
       /\ stats' = st
       /\ localStore' = store
       /\ UNCHANGED currentWrongCount
  ELSE LET rechoose == TargetInvalid(currentTarget, enabled)
       IN \E next \in (IF rechoose THEN chooseNextTarget(visible, None, st, now)
                                   ELSE {currentTarget}) :
             /\ currentTarget' = next
             /\ targetStats' = IF rechoose THEN StatsOfRecord(records, next) ELSE targetStats
             /\ currentWrongCount' = IF rechoose THEN 0 ELSE currentWrongCount
             /\ stats' = SeenStats(st, next)
             /\ localStore' = SeenStore(store, st, next)
             /\ UNCHANGED <<revealState, intervalTimers>>

\* flashWaypointFeedback up to its setTimeout: the flash replaces the one the
\* waypoint has, and a one-shot timer is set for the same duration
flashWaypointFeedback(waypointId, type) ==
  IF ~feedbackObserved \/ waypointId = None
  THEN UNCHANGED <<waypointFeedback, timeouts>>
  ELSE /\ waypointFeedback' = MapSet(waypointFeedback, waypointId,
                                     [color |-> type, expiresAt |-> now + revealFlashMs])
       /\ timeouts' = timeouts \cup {[id |-> waypointId, due |-> now + revealFlashMs]}

ExpiryRemoves_Whatever(feedback, t) == TRUE

\* feedback.expiresAt <= Date.now() in the timer callback
ExpiryRemoves(feedback, t) == feedback.expiresAt <= t

NoWaypointTapped_Never(tappedWaypoint) == FALSE

\* if (!tappedWaypoint) return;
NoWaypointTapped(tappedWaypoint) == tappedWaypoint = None

IsCorrect_TappedIsTarget(sx, sy, tappedWaypoint, target, vp) == tappedWaypoint = target

\* isCorrect = Math.hypot(tapWorld - currentTarget) <= toleranceWorld, whatever
\* tappedWaypoint is
IsCorrect(sx, sy, tappedWaypoint, target, vp) == WithinTolerance(sx, sy, target, vp)

WrongSubject_Tapped(tappedWaypoint, target) == tappedWaypoint

\* applyWrong(currentTarget): the waypoint an incorrect judgment is booked on
WrongSubject(tappedWaypoint, target) == target

IgnoredWhileRevealing_Never(active, isCorrect) == FALSE

\* if (revealState.active && !isCorrect) return;
IgnoredWhileRevealing(active, isCorrect) == active /\ ~isCorrect

RevealReached_Late(wrongCount) == wrongCount > 3

\* if (currentWrongCount >= 3) startRevealMode();
RevealReached(wrongCount) == wrongCount >= 3

----------------------------------------------------------------------------
(* Events *)

getPreferredBounds_NoDefault(fir, wps) ==
  IF fir = None /\ wps = <<>> THEN None ELSE "data"

\* getPreferredBounds: the bounds of the data, or DEFAULT_VIEW_BOUNDS when
\* the data holds no finite coordinate
getPreferredBounds(fir, wps) ==
  IF fir = None /\ wps = <<>> THEN "DEFAULT_VIEW_BOUNDS" ELSE "data"

\* resizeCanvas: canvas size, updateProjection (which rebuilds the waypoint
\* records and the visible list), fitViewToEPWW, requestRender
ResizeEffect(size) ==
  LET bounds == computeRegionBounds(firGeoJSON, waypoints)
  IN /\ canvas' = size
     /\ projection' = IF getPreferredBounds(firGeoJSON, waypoints) = None
                      THEN None ELSE "projection"
     /\ epwwBounds' = bounds
     /\ recordStats' = IF getPreferredBounds(firGeoJSON, waypoints) = None THEN recordStats
                        ELSE [w \in DOMAIN recordStats |-> CopyStats(recordStats[w])]
     /\ visibleWaypoints' = updateVisibleWaypoints(enabledFIRs, waypoints)
     /\ viewport' = IF bounds = NoBounds THEN viewport ELSE fitViewToBounds(bounds, size)
     /\ requestRender

\* window 'load': init() up to its await
WindowLoad ==
  /\ loadState = "constructed"
  /\ loadState' = "loading"
  /\ \E size \in CanvasSizes : ResizeEffect(size)
  /\ initializationError' = None
  /\ UNCHANGED flashVars
  /\ lastEvent' = OtherEvent
  /\ UNCHANGED <<inputVars, firGeoJSON, waypoints, firOptions, enabledFIRs, stats, quizVars,
                 localStore, storageWritable, now, wrongRun>>

\* window 'resize', the canvas element having got that size
ResizeCanvasTo(size) ==
  /\ ResizeEffect(size)
  /\ UNCHANGED flashVars
  /\ lastEvent' = OtherEvent
  /\ UNCHANGED <<inputVars, loadState, initializationError, firGeoJSON, waypoints, firOptions,
                 enabledFIRs, stats, quizVars, localStore, storageWritable, now, wrongRun>>

ResizeCanvas == \E size \in CanvasSizes : ResizeCanvasTo(size)

\* init() after both loads succeeded, loadWaypoints() having returned loaded
InitResolve(loaded) ==
  /\ loadState = "loading"
  /\ loadState' = "ready"
  /\ LET merged == [w \in Range(loaded) |-> mergeStoredStats(localStore.stats[w])]
         options == uniqueFIRs(loaded)
         enabled == restoreEnabledFIRs(options, localStore.fir)
         visible == updateVisibleWaypoints(enabled, loaded)
         bounds == computeRegionBounds("FIRmap", loaded)
         \* mergeStoredStats makes a stats object for each waypoint, named after
         \* it here; updateProjection then copies the records
         records == [w \in Range(loaded) |-> CopyStats(w)]
     IN /\ firGeoJSON' = "FIRmap"
        /\ waypoints' = loaded
        /\ recordStats' = records
        /\ firOptions' = options
        /\ enabledFIRs' = enabled
        /\ projection' = "projection"
        /\ epwwBounds' = bounds
        /\ visibleWaypoints' = visible
        /\ UpdateCurrentTarget(enabled, visible, records, merged, localStore)
        /\ viewport' = IF bounds = NoBounds THEN viewport ELSE fitViewToBounds(bounds, canvas)
        /\ requestRender
  /\ UNCHANGED flashVars
  /\ lastEvent' = Event("load", None, 0, 0)
  /\ Observe("load")
  /\ UNCHANGED <<inputVars, initializationError, canvas, storageWritable, now>>

InitReject_AdoptsBoundary ==
  /\ loadState = "loading"
  /\ loadState' = "failed"
  /\ firGeoJSON' = "FIRmap"
  /\ initializationError' = "Failed to load"
  /\ UNCHANGED flashVars
  /\ lastEvent' = OtherEvent
  /\ UNCHANGED <<inputVars, waypoints, recordStats, visibleWaypoints, firOptions, enabledFIRs, stats,
                 quizVars, renderScheduled, frameCallbacks, viewVars, localStore, storageWritable, now, wrongRun>>

\* init() after a load failed: setInitializationError
InitReject ==
  /\ loadState = "loading"
  /\ loadState' = "failed"
  /\ initializationError' = "Failed to load"
  /\ UNCHANGED flashVars
  /\ lastEvent' = OtherEvent
  /\ UNCHANGED <<inputVars, firGeoJSON, waypoints, recordStats, visibleWaypoints, firOptions, enabledFIRs, stats,
                 quizVars, renderScheduled, frameCallbacks, viewVars, localStore, storageWritable, now, wrongRun>>

\* onFIRSelectionChanged after the enabled set became enabled
OnFIRSelectionChanged(enabled) ==
  LET visible == updateVisibleWaypoints(enabled, waypoints)
  IN /\ enabledFIRs' = enabled
     /\ visibleWaypoints' = visible
     /\ UpdateCurrentTarget(enabled, visible, recordStats, stats,
                            persistEnabledFIRs(localStore, enabled))
     /\ requestRender
     /\ UNCHANGED flashVars
     /\ lastEvent' = Event("firChange", currentTarget, 0, 0)
     /\ Observe("firChange")
     /\ UNCHANGED <<inputVars, loadState, initializationError, firGeoJSON, waypoints, recordStats, firOptions,
                    viewVars, storageWritable, now>>

\* the FIR controls exist once init() has rendered them
ControlsRendered == loadState = "ready" /\ Len(firOptions) > 0

\* a checkbox 'change'
ToggleFIR(fir) ==
  /\ ControlsRendered
  /\ OnFIRSelectionChanged(IF fir \in enabledFIRs THEN enabledFIRs \ {fir}
                                                  ELSE enabledFIRs \cup {fir})

\* 'Select all'
SelectAll ==
  /\ ControlsRendered
  /\ OnFIRSelectionChanged(Range(firOptions))

\* 'Select none'
SelectNone ==
  /\ ControlsRendered
  /\ OnFIRSelectionChanged({})

\* What a tap at (sx, sy) is, by the positions alone: "tapNoTarget" without
\* projection or target, "tapInert" with no visible waypoint within
\* tolerance, "tapCorrect" within tolerance of the target, and otherwise
\* "tapIgnored" while revealing and "tapWrong" else.
TapKind(sx, sy) ==
  IF projection = None \/ currentTarget = None THEN "tapNoTarget"
  ELSE IF \A w \in Range(visibleWaypoints) : ~WithinTolerance(sx, sy, w, viewport)
       THEN "tapInert"
  ELSE IF WithinTolerance(sx, sy, currentTarget, viewport) THEN "tapCorrect"
  ELSE IF revealState.active THEN "tapIgnored"
  ELSE "tapWrong"

\* handleCanvasTap(screenX, screenY)
HandleCanvasTap(sx, sy) ==
  /\ lastEvent' = [Event(TapKind(sx, sy), currentTarget, wrongRun,
                          IF TapKind(sx, sy) = "tapCorrect" THEN currentWrongCount ELSE 0)
                      EXCEPT !.tapped = IF projection = None \/ currentTarget = None THEN None
                                        ELSE findTappedWaypoint(sx, sy, visibleWaypoints, viewport)]
  /\ UNCHANGED <<dataVars, viewVars, storageWritable, now, feedbackObserved>>
  /\ IF projection = None \/ currentTarget = None
     THEN UNCHANGED <<stats, quizVars, renderScheduled, frameCallbacks, localStore,
                      waypointFeedback, timeouts>>
     ELSE
       LET tappedWaypoint == findTappedWaypoint(sx, sy, visibleWaypoints, viewport)
           correct == IsCorrect(sx, sy, tappedWaypoint, currentTarget, viewport)
       IN IF NoWaypointTapped(tappedWaypoint)
          THEN UNCHANGED <<stats, quizVars, renderScheduled, frameCallbacks, localStore,
                           waypointFeedback, timeouts>>
          ELSE IF IgnoredWhileRevealing(revealState.active, correct)
          THEN UNCHANGED <<stats, quizVars, renderScheduled, frameCallbacks, localStore,
                           waypointFeedback, timeouts>>
          ELSE IF correct
          THEN
            LET answered == applyCorrect(stats[targetStats], currentWrongCount, now)
                st1 == [stats EXCEPT ![targetStats] = answered]
                store1 == persistWaypointStats(localStore, currentTarget, answered)
            IN /\ stats[targetStats].correctStreak < MaxCorrectStreak
               /\ flashWaypointFeedback(currentTarget, "correct")
               /\ currentWrongCount' = 0
               /\ StopRevealMode
               /\ \E next \in takeQueuedNextTarget(visibleWaypoints, currentTarget, st1, now) :
                    /\ currentTarget' = next
                    /\ targetStats' = StatsOfRecord(recordStats, next)
                    /\ stats' = SeenStats(st1, next)
                    /\ localStore' = SeenStore(store1, st1, next)
               \* flashWaypointFeedback, stopRevealMode and the handler itself
               /\ requestRenders(3)
          ELSE
            LET subject == WrongSubject(tappedWaypoint, currentTarget)
                object == IF subject = currentTarget THEN targetStats
                          ELSE StatsOfRecord(recordStats, subject)
                answered == applyWrong(stats[object], now)
                st1 == [stats EXCEPT ![object] = answered]
            IN /\ stats[object].wrongStreak < MaxWrongStreak
               /\ currentWrongCount' = currentWrongCount + 1
               /\ flashWaypointFeedback(tappedWaypoint, "wrong")
               /\ stats' = st1
               /\ localStore' = persistWaypointStats(localStore, subject, answered)
               /\ IF RevealReached(currentWrongCount + 1)
                  THEN StartRevealMode
                  ELSE UNCHANGED <<revealState, intervalTimers>>
               \* flashWaypointFeedback and the handler itself
               /\ requestRenders(2)
               /\ UNCHANGED <<currentTarget, targetStats>>
  /\ Observe(TapKind(sx, sy))

\* the screen points taps are tried at: on each waypoint, and at these
\* offsets from it, under the current viewport
TapOffsets == {<<0, 0>>, <<12, 0>>, <<18, 0>>, <<13, 13>>}
TapPoints ==
  {<<10, 10>>} \cup
  {<<ScreenX(w, viewport) + d[1], ScreenY(w, viewport) + d[2]>> :
     w \in Range(waypoints), d \in TapOffsets}

Tap == \E p \in TapPoints : HandleCanvasTap(p[1], p[2]) /\ UNCHANGED inputVars

\* the frame callback: render(); with a projection drawWaypoints drops the
\* expired flash of every visible waypoint
Render ==
  /\ frameCallbacks > 0
  /\ frameCallbacks' = frameCallbacks - 1
  /\ renderScheduled' = FALSE
  /\ waypointFeedback' =
       IF projection = None THEN waypointFeedback
       ELSE MapDelete(waypointFeedback,
                      {w \in Range(visibleWaypoints) \cap DOMAIN waypointFeedback :
                         waypointFeedback[w].expiresAt <= now})
  /\ UNCHANGED <<timeouts, feedbackObserved>>
  /\ lastEvent' = OtherEvent
  /\ UNCHANGED <<inputVars, dataVars, stats, quizVars, viewVars, localStore, storageWritable, now, wrongRun>>

\* the reveal interval callback of a live timer
RevealBlink ==
  /\ intervalTimers # {}
  /\ revealState' = [revealState EXCEPT !.visible = ~revealState.visible]
  /\ requestRender
  /\ UNCHANGED flashVars
  /\ lastEvent' = OtherEvent
  /\ UNCHANGED <<inputVars, dataVars, stats, currentTarget, targetStats, currentWrongCount,
                 intervalTimers, viewVars, localStore, storageWritable, now, wrongRun>>

\* time passes
Tick ==
  /\ now + TickMs <= T0 + MaxTicks * TickMs
  /\ now' = now + TickMs
  /\ UNCHANGED flashVars
  /\ lastEvent' = OtherEvent
  /\ UNCHANGED <<inputVars, dataVars, stats, quizVars, renderScheduled, frameCallbacks, viewVars, localStore,
                 storageWritable, wrongRun>>

\* activeId = null, isDragging = false and the four positions 0
ResetPointer(ps) ==
  [ps EXCEPT !.activeId = 0, !.isDragging = FALSE,
             !.startX = 0, !.startY = 0, !.lastX = 0, !.lastY = 0]

TakeOver_AsFreshPointer(ps, remainingId, remainingPoint) ==
  [ps EXCEPT !.activeId = remainingId,
             !.startX = remainingPoint.x, !.startY = remainingPoint.y,
             !.lastX = remainingPoint.x, !.lastY = remainingPoint.y,
             !.isDragging = FALSE]

\* endPointer, when a pinch ends with one pointer left: that pointer becomes
\* the active one, already dragging, from where it is
TakeOver(ps, remainingId, remainingPoint) ==
  [ps EXCEPT !.activeId = remainingId,
             !.startX = remainingPoint.x, !.startY = remainingPoint.y,
             !.lastX = remainingPoint.x, !.lastY = remainingPoint.y,
             !.isDragging = TRUE]

\* performance.now(): milliseconds since the page's time origin
PerfNow == now - T0

\* lastEvent of a pointer or wheel event at the canvas point (px, py); factor
\* is the zoom factor of a wheel event
InputEvent(kind, px, py, factor) ==
  [kind |-> kind, wp |-> currentTarget, wrongRun |-> wrongRun, arg |-> 0, tapped |-> None,
   px |-> px, py |-> py, factor |-> factor]

\* what an input event leaves alone besides the camera and the pointers
InputFrame ==
  UNCHANGED <<dataVars, stats, quizVars, canvas, projection, epwwBounds, localStore,
              storageWritable, now, wrongRun>>

WheelIgnored_WithoutTarget == projection = None \/ currentTarget = None

\* if (!projection) return;
WheelIgnored == projection = None

\* canvas 'wheel' at (px, py) with zoomFactor = Math.exp(-deltaY * 0.001)
Wheel(px, py, factor) ==
  /\ pointerTrace.inputs < MaxInputs
  /\ IF WheelIgnored
     THEN UNCHANGED <<viewport, renderScheduled, frameCallbacks>>
     ELSE LET z == zoomAt(RatOf(px), RatOf(py), factor, viewport)
          IN /\ Whole(z)
             /\ viewport' = ToViewport(z)
             /\ requestRenderIf(z.render)
  /\ pointerTrace' = [pointerTrace EXCEPT !.inputs = @ + 1]
  /\ UNCHANGED flashVars
  /\ lastEvent' = InputEvent("wheel", px, py, factor)
  /\ UNCHANGED <<pointerPositions, pointerState, panState, pinchState>>
  /\ InputFrame

\* canvas 'pointerdown' of pointer id at (x, y)
PointerDown(id, x, y) ==
  /\ id \notin DOMAIN pointerPositions
  /\ pointerTrace.inputs < MaxInputs
  /\ LET positions == [i \in DOMAIN pointerPositions \cup {id} |->
                         IF i = id THEN [x |-> x, y |-> y] ELSE pointerPositions[i]]
         size == Cardinality(DOMAIN positions)
     IN /\ pointerPositions' = positions
        /\ IF size = 1
           THEN /\ pointerState' = [pointerState EXCEPT !.activeId = id,
                                       !.startX = x, !.startY = y, !.lastX = x, !.lastY = y,
                                       !.isDragging = FALSE]
                /\ UNCHANGED <<panState, pinchState>>
           ELSE IF size = 2
           THEN \* startPinch(pointA, pointB)
                LET pointA == pointerPositions[CHOOSE i \in DOMAIN pointerPositions : TRUE]
                    pointB == positions[id]
                    center == centerBetweenPoints(pointA, pointB)
                IN /\ ExactHypot(pointA.x - pointB.x, pointA.y - pointB.y)
                   /\ pinchState' = [active |-> TRUE,
                                     startDistance |-> Max2(distanceBetweenPoints(pointA, pointB), 1),
                                     startScale |-> viewport.scale,
                                     centerX |-> center.x, centerY |-> center.y]
                   /\ pointerState' = [pointerState EXCEPT !.isDragging = TRUE]
                   /\ panState' = [panState EXCEPT !.active = FALSE]
           ELSE UNCHANGED <<pointerState, panState, pinchState>>
        /\ pointerTrace' =
             [pointerTrace EXCEPT
                !.down = [i \in DOMAIN positions |->
                            IF i = id
                            THEN [x |-> x, y |-> y, far |-> FALSE,
                                  multi |-> DOMAIN pointerPositions # {}]
                            ELSE [pointerTrace.down[i] EXCEPT !.multi = TRUE]],
                !.moves = 0,
                !.inputs = @ + 1]
  /\ UNCHANGED flashVars
  /\ lastEvent' = InputEvent("pointerDown", x, y, RatOf(1))
  /\ UNCHANGED <<viewport, renderScheduled, frameCallbacks>>
  /\ InputFrame

\* canvas 'pointermove' of pointer id to (x, y)
PointerMove(id, x, y) ==
  /\ id \in DOMAIN pointerPositions
  /\ LET positions == [pointerPositions EXCEPT ![id] = [x |-> x, y |-> y]]
     IN /\ pointerPositions' = positions
        /\ IF pinchState.active /\ Cardinality(DOMAIN positions) >= 2
           THEN \* updatePinch(pointA, pointB)
                LET pointA == positions[id]
                    pointB == positions[CHOOSE i \in DOMAIN positions : i # id]
                    center == centerBetweenPoints(pointA, pointB)
                    distance == Max2(distanceBetweenPoints(pointA, pointB), 1)
                    z == PinchScale(center, distance, pinchState, viewport)
                IN /\ pointerTrace.moves < MaxPinchMoves
                   /\ ExactHypot(pointA.x - pointB.x, pointA.y - pointB.y)
                   /\ Whole(z)
                   /\ pinchState' = [pinchState EXCEPT !.centerX = center.x, !.centerY = center.y]
                   /\ viewport' = ToViewport(z)
                   /\ requestRenderIf(z.render)
                   /\ UNCHANGED <<pointerState, panState>>
           ELSE IF pointerState.activeId # id
           THEN UNCHANGED <<pointerState, panState, pinchState, viewport, renderScheduled, frameCallbacks>>
           ELSE LET starts == /\ ~pointerState.isDragging
                              /\ BeyondDragThreshold(x, y, pointerState.startX, pointerState.startY)
                    dragging == pointerState.isDragging \/ starts
                    \* startPan(x, y)
                    pan1 == IF starts THEN [active |-> TRUE, lastX |-> x, lastY |-> y]
                            ELSE panState
                    \* continuePan(x, y) returns unless the pan is active and the point moved
                    moves == dragging /\ pan1.active /\ (x # pan1.lastX \/ y # pan1.lastY)
                IN /\ pointerState' = [pointerState EXCEPT !.isDragging = dragging,
                                                           !.lastX = x, !.lastY = y]
                   /\ panState' = IF moves THEN [pan1 EXCEPT !.lastX = x, !.lastY = y] ELSE pan1
                   /\ viewport' = IF moves
                                  THEN [viewport EXCEPT !.offsetX = @ + (x - pan1.lastX),
                                                        !.offsetY = @ + (y - pan1.lastY)]
                                  ELSE viewport
                   /\ requestRenderIf(moves)
                   /\ UNCHANGED pinchState
        /\ pointerTrace' =
             [pointerTrace EXCEPT
                !.down[id].far = @ \/ BeyondDragThreshold(x, y, pointerTrace.down[id].x,
                                                          pointerTrace.down[id].y),
                !.moves = IF pinchState.active /\ Cardinality(DOMAIN positions) >= 2
                          THEN @ + 1 ELSE @]
  /\ UNCHANGED flashVars
  /\ lastEvent' = InputEvent("pointerMove", x, y, RatOf(1))
  /\ InputFrame

\* canvas 'pointerup' or 'pointercancel' of pointer id at (x, y): endPointer
PointerUp(id, x, y) ==
  /\ id \in DOMAIN pointerPositions
  /\ LET positions == [i \in DOMAIN pointerPositions \ {id} |-> pointerPositions[i]]
         size == Cardinality(DOMAIN positions)
         endsPinch == pinchState.active /\ size < 2
         \* endPinch()
         pinch1 == IF endsPinch
                   THEN [pinchState EXCEPT !.active = FALSE, !.startDistance = 0,
                                           !.startScale = viewport.scale]
                   ELSE pinchState
         \* the pointer that stays down takes over as a drag
         ps1 == IF endsPinch /\ size = 1
                THEN LET rest == CHOOSE i \in DOMAIN positions : TRUE
                     IN TakeOver(pointerState, rest, positions[rest])
                ELSE IF endsPinch THEN ResetPointer(pointerState)
                ELSE pointerState
         pan1 == IF endsPinch /\ size = 1
                 THEN LET rest == CHOOSE i \in DOMAIN positions : TRUE
                      IN [active |-> TRUE, lastX |-> positions[rest].x, lastY |-> positions[rest].y]
                 ELSE panState
         endsPan == ps1.activeId = id /\ ps1.isDragging
         isTap == IsTap(ps1.activeId = id, ps1.isDragging, pinch1.active)
         accepted == isTap /\ CooldownPassed(PerfNow, ps1.lastTapTime)
         ps2 == IF accepted THEN [ps1 EXCEPT !.lastTapTime = PerfNow] ELSE ps1
     IN /\ pointerPositions' = positions
        /\ pinchState' = pinch1
        /\ panState' = IF endsPan THEN [pan1 EXCEPT !.active = FALSE] ELSE pan1
        /\ pointerState' = IF ps2.activeId = id THEN ResetPointer(ps2) ELSE ps2
        /\ pointerTrace' =
             [pointerTrace EXCEPT
                !.down = [i \in DOMAIN positions |-> pointerTrace.down[i]],
                !.tapAt = IF accepted THEN PerfNow ELSE @,
                !.tapX = IF accepted THEN x ELSE @,
                !.tapY = IF accepted THEN y ELSE @]
        /\ IF accepted
           THEN HandleCanvasTap(x, y)
           ELSE /\ lastEvent' = InputEvent("pointerUp", x, y, RatOf(1))
                /\ UNCHANGED flashVars
                /\ UNCHANGED <<viewport, renderScheduled, frameCallbacks>>
                /\ InputFrame

\* a short time passes
Wait ==
  /\ now + WaitMs <= T0 + MaxWaits * WaitMs
  /\ now' = now + WaitMs
  /\ UNCHANGED flashVars
  /\ lastEvent' = OtherEvent
  /\ UNCHANGED <<inputVars, dataVars, stats, quizVars, renderScheduled, frameCallbacks, viewVars, localStore,
                 storageWritable, wrongRun>>

\* the timer callback of flashWaypointFeedback, run once when its delay has passed
FeedbackExpiry ==
  \E t \in timeouts :
    /\ t.due <= now
    /\ timeouts' = timeouts \ {t}
    /\ IF t.id \in DOMAIN waypointFeedback /\ ExpiryRemoves(waypointFeedback[t.id], now)
       THEN /\ waypointFeedback' = MapDelete(waypointFeedback, {t.id})
            /\ requestRender
       ELSE UNCHANGED <<waypointFeedback, renderScheduled, frameCallbacks>>
    /\ lastEvent' = Event("expiry", t.id, 0, 0)
    /\ UNCHANGED <<inputVars, dataVars, stats, quizVars, viewVars, localStore, storageWritable,
                   now, wrongRun, feedbackObserved>>

\* time passes while a flash timer is still waiting for its delay
Elapse ==
  /\ \E t \in timeouts : now < t.due
  /\ now' = now + FlashStepMs
  /\ lastEvent' = OtherEvent
  /\ UNCHANGED <<inputVars, dataVars, stats, quizVars, renderScheduled, frameCallbacks, viewVars,
                 localStore, storageWritable, wrongRun, flashVars>>

\* Resizes under a target: the window is made smaller only while there is a
\* target, so a canvas of that size tells that the records were rebuilt
\* after a target had been chosen.
ResizeSizes == {[width |-> 400, height |-> 300]}
ShrinkUnderTarget == currentTarget # None /\ \E size \in ResizeSizes : ResizeCanvasTo(size)
NextResize == WindowLoad \/ InitResolve(TwoWaypoints) \/ Tap \/ ShrinkUnderTarget
InitResize == Init /\ localStore = EmptyStore /\ storageWritable
SpecResize == InitResize /\ [][NextResize]_vars

\* The feedback flashes: taps on two waypoints, the clock, the flash timers
\* and the frames. Time passes and a timer whose delay has passed runs.
InitFlash == Constructed /\ feedbackObserved = TRUE /\ localStore = EmptyStore /\ storageWritable
\* a tap on a waypoint, early enough for its flash to run out within the
\* clock steps tried
FlashTap ==
  /\ now + revealFlashMs <= T0 + MaxFlashSteps * FlashStepMs
  /\ \E w \in Range(waypoints) :
       HandleCanvasTap(ScreenX(w, viewport), ScreenY(w, viewport)) /\ UNCHANGED inputVars
NextFlash ==
  WindowLoad \/ InitResolve(TwoWaypoints) \/ FlashTap \/ Render \/ FeedbackExpiry \/ Elapse
SpecFlash == InitFlash /\ [][NextFlash]_vars /\ WF_vars(FeedbackExpiry) /\ WF_vars(Elapse)

FIRChange == (\E fir \in Range(firOptions) : ToggleFIR(fir)) \/ SelectAll \/ SelectNone

Session ==
  \/ WindowLoad
  \/ InitReject
  \/ ResizeCanvas
  \/ Tap
  \/ RevealBlink
  \/ Tick

Next == InitResolve(TwoWaypoints) \/ Session \/ FIRChange

NextFixedFIR == InitResolve(ThreeWaypoints) \/ Session

Spec == Init /\ [][Next]_vars

\* the same program while nobody touches the FIR controls
SpecFixedFIR == Init /\ [][NextFixedFIR]_vars

----------------------------------------------------------------------------
(* The camera: one waypoint, the wheel and one pointer.  The clock stands   *)
(* still, so that no pointer-up passes the tap cooldown.                   *)

OneWaypoint == <<"W1">>

\* Math.exp(-deltaY * 0.001) of the wheel events tried, as rationals
WheelFactors == {Rat(2, 1), Rat(1, 2), Rat(10, 1), Rat(1, 10000)}

\* the canvas points the wheel is turned at: over W1 and over the centre of
\* the FIR boundary's box
CentreX(vp) == (((FirBounds.minX + FirBounds.maxX) \div 2) * vp.scale) \div WorldDen + vp.offsetX
CentreY(vp) == (((FirBounds.minY + FirBounds.maxY) \div 2) * vp.scale) \div WorldDen + vp.offsetY
WheelPoints ==
  {<<ScreenX("W1", viewport), ScreenY("W1", viewport)>>,
   <<CentreX(viewport), CentreY(viewport)>>}

\* the canvas points at the given offsets from the screen position of W1
PointsAtW1(offsets) ==
  {<<ScreenX("W1", viewport) + d[1], ScreenY("W1", viewport) + d[2]>> : d \in offsets}

\* the canvas points at the given offsets from where pointer id went down
PointsAtDown(id, offsets) ==
  {<<pointerTrace.down[id].x + d[1], pointerTrace.down[id].y + d[2]>> : d \in offsets}

\* the canvas points at the given offsets from where pointer id is
PointsAt(id, offsets) ==
  {<<pointerPositions[id].x + d[1], pointerPositions[id].y + d[2]>> : d \in offsets}

InitCamera == Init /\ localStore = EmptyStore /\ storageWritable

\* pointer id goes down at one of the points downs, moves to one of the
\* offsets moves from there, or goes up where it is
Pointer(id, downs, moves) ==
  \/ \E p \in downs : PointerDown(id, p[1], p[2])
  \/ id \in DOMAIN pointerPositions
       /\ \E p \in PointsAtDown(id, moves) : PointerMove(id, p[1], p[2])
  \/ id \in DOMAIN pointerPositions
       /\ PointerUp(id, pointerPositions[id].x, pointerPositions[id].y)

\* the wheel is turned at one of the points by one of the factors
WheelAt(points, factors) == \E p \in points, factor \in factors : Wheel(p[1], p[2], factor)
WheelTurn == WheelAt(WheelPoints, WheelFactors)

\* a drag: short of the drag threshold, and beyond it
DragOffsets == {<<6, 8>>, <<40, 0>>}

NextCamera ==
  \/ WindowLoad
  \/ InitResolve(OneWaypoint)
  \/ InitReject
  \/ SelectNone
  \/ SelectAll
  \/ ResizeCanvas
  \/ Render
  \/ WheelTurn
  \/ Pointer(1, PointsAtW1({<<0, 0>>}), DragOffsets)

SpecCamera == InitCamera /\ [][NextCamera]_vars

\* Two pointers: the first finger goes down on W1, the second to the right of
\* it, and both slide along the line through them.
SpreadOffsets == {<<0, 0>>, <<40, 0>>, <<-20, 0>>}

NextPinch ==
  \/ WindowLoad
  \/ InitResolve(OneWaypoint)
  \/ InitReject
  \/ SelectNone
  \/ WheelTurn
  \/ Pointer(1, PointsAtW1({<<0, 0>>}), {<<40, 0>>, <<20, 0>>})
  \/ 1 \in DOMAIN pointerPositions /\ Pointer(2, PointsAt(1, {<<40, 0>>}), SpreadOffsets)

SpecPinch == InitCamera /\ [][NextPinch]_vars

\* Taps through the pointer handlers, with the clock: the first finger goes
\* down on or near W1, slides or not, and is lifted; a second finger may
\* join it.
NearOffsets == {<<0, 0>>, <<18, 0>>, <<13, 13>>}
SlideOffsets == {<<0, 0>>, <<6, 8>>, <<40, 0>>}

NextTap ==
  \/ WindowLoad
  \/ InitResolve(OneWaypoint)
  \/ Wait
  \/ Pointer(1, PointsAtW1({<<0, 0>>, <<13, 13>>}), SlideOffsets)
  \/ 1 \in DOMAIN pointerPositions /\ Pointer(2, PointsAt(1, {<<40, 0>>}), {<<0, 0>>})

SpecTap == InitCamera /\ [][NextTap]_vars

\* Taps after wheel turns, with the clock: the finger goes down on or near W1
\* and is lifted where it went down.
NextZoomTap ==
  \/ WindowLoad
  \/ InitResolve(OneWaypoint)
  \/ InitReject
  \/ Wait
  \/ WheelAt(PointsAtW1({<<0, 0>>}), WheelFactors)
  \/ Pointer(1, PointsAtW1(NearOffsets), {<<0, 0>>})

SpecZoomTap == InitCamera /\ [][NextZoomTap]_vars

----------------------------------------------------------------------------
(* zoomAt of the later build, whose scale limits are 7000 and 25000, as a   *)
(* function of the viewport: it starts from the viewport as constructed or  *)
(* as the fit of the FIR boundary's box leaves it.                         *)

MIN_SCALE_3 == 7000
MAX_SCALE_3 == 25000

\* fitViewToBounds of that build (exact for the canvas sizes and data used)
fitViewToBounds_3(bounds, cv) ==
  LET spanX == FitSpan(bounds.minX, bounds.maxX)
      spanY == FitSpan(bounds.minY, bounds.maxY)
      fit == Min2((cv.width * targetFillNum * WorldDen) \div (targetFillDen * spanX),
                  (cv.height * targetFillNum * WorldDen) \div (targetFillDen * spanY))
      scale == Min2(Max2(fit, MIN_SCALE_3), MAX_SCALE_3)
  IN [scale |-> scale,
      offsetX |-> cv.width \div 2 - ((bounds.minX + bounds.maxX) * scale) \div (2 * WorldDen),
      offsetY |-> cv.height \div 2 - ((bounds.minY + bounds.maxY) * scale) \div (2 * WorldDen)]

InitZoomAt ==
  /\ loadState \in {"loading", "ready"}
  /\ initializationError = None
  /\ firGeoJSON = IF loadState = "ready" THEN "FIRmap" ELSE None
  /\ waypoints = <<>>
  /\ recordStats = NoRecords
  /\ visibleWaypoints = <<>>
  /\ firOptions = <<>>
  /\ enabledFIRs = {}
  /\ stats = [w \in {} |-> defaultStats]
  /\ currentTarget = None
  /\ targetStats = None
  /\ currentWrongCount = 0
  /\ revealState = NoReveal
  /\ intervalTimers = {}
  /\ renderScheduled \in BOOLEAN
  /\ frameCallbacks = IF renderScheduled THEN 1 ELSE 0
  /\ waypointFeedback = NoFeedback
  /\ timeouts = {}
  /\ feedbackObserved = FALSE
  /\ canvas \in CanvasSizes
  /\ projection = "projection"
  /\ epwwBounds = computeRegionBounds(firGeoJSON, waypoints)
  /\ viewport = IF epwwBounds = NoBounds THEN [scale |-> 1, offsetX |-> 0, offsetY |-> 0]
                ELSE fitViewToBounds_3(epwwBounds, canvas)
  /\ localStore = EmptyStore
  /\ storageWritable = TRUE
  /\ now = T0
  /\ lastEvent = OtherEvent
  /\ wrongRun = 0
  /\ InputsIdle

\* the canvas points zoomAt is called at
ZoomPoints ==
  {<<CentreX(viewport), CentreY(viewport)>>, <<ScreenX("W1", viewport), ScreenY("W1", viewport)>>,
   <<viewport.offsetX + viewport.scale, viewport.offsetY>>}

\* zoomAt(pointX, pointY, factor) of that build
ZoomAt(pointX, pointY, factor) ==
  /\ pointerTrace.inputs < MaxInputs
  /\ LET z == zoomAtIn(MIN_SCALE_3, MAX_SCALE_3, RatOf(pointX), RatOf(pointY), factor, viewport)
     IN /\ Whole(z)
        /\ viewport' = ToViewport(z)
        /\ requestRenderIf(z.render)
  /\ pointerTrace' = [pointerTrace EXCEPT !.inputs = @ + 1]
  /\ UNCHANGED flashVars
  /\ lastEvent' = InputEvent("zoomAt", pointX, pointY, factor)
  /\ UNCHANGED <<pointerPositions, pointerState, panState, pinchState>>
  /\ InputFrame

NextZoomAt == \E p \in ZoomPoints, factor \in WheelFactors : ZoomAt(p[1], p[2], factor)

SpecZoomAt == InitZoomAt /\ [][NextZoomAt]_vars

----------------------------------------------------------------------------
(* Session boundaries: the page is loaded again and the script starts from  *)
(* its initial module state, with localStorage as the last session left it. *)

Reload ==
  /\ loadState \in {"ready", "failed"}
  /\ loadState' = "constructed"
  /\ initializationError' = None
  /\ firGeoJSON' = None
  /\ waypoints' = <<>>
  /\ recordStats' = NoRecords
  /\ visibleWaypoints' = <<>>
  /\ firOptions' = <<>>
  /\ enabledFIRs' = {}
  /\ stats' = [w \in {} |-> defaultStats]
  /\ currentTarget' = None
  /\ targetStats' = None
  /\ currentWrongCount' = 0
  /\ revealState' = NoReveal
  /\ intervalTimers' = {}
  /\ renderScheduled' = FALSE
  /\ frameCallbacks' = 0
  /\ waypointFeedback' = NoFeedback
  /\ timeouts' = {}
  /\ UNCHANGED feedbackObserved
  /\ viewport' = [scale |-> 1, offsetX |-> 0, offsetY |-> 0]
  /\ canvas' = [width |-> 300, height |-> 150]
  /\ projection' = None
  /\ epwwBounds' = NoBounds
  /\ lastEvent' = Event("reload", None, 0, 0)
  /\ wrongRun' = 0
  /\ pointerPositions' = NoPointers
  /\ pointerState' = IdlePointerState
  /\ panState' = IdlePanState
  /\ pinchState' = IdlePinchState
  /\ pointerTrace' = NoTrace
  /\ UNCHANGED <<localStore, storageWritable, now>>

NextReload ==
  \/ WindowLoad
  \/ InitResolve(TwoWaypoints)
  \/ InitReject
  \/ FIRChange
  \/ Reload

\* sessions in which only the region controls are used, one after another
SpecReload == Init /\ [][NextReload]_vars

----------------------------------------------------------------------------
(* The scheduler on its own: applyWrong and applyCorrect applied to the     *)
(* stats of one waypoint, with every wrongsBeforeCorrect a caller can pass. *)
(* Here wrongRun counts the applyWrong calls since the last applyCorrect.   *)

\* a judgment is applied only while the streak it increments is below this
MaxSchedStreak == 6

InitScheduler ==
  /\ Init
  /\ localStore = EmptyStore
  /\ storageWritable

SchedulerStart ==
  /\ DOMAIN stats = {}
  /\ \E seen \in BOOLEAN : stats' = [w \in {"W1"} |-> [defaultStats EXCEPT !.seen = seen]]
  /\ UNCHANGED flashVars
  /\ lastEvent' = OtherEvent
  /\ UNCHANGED <<inputVars, dataVars, quizVars, renderScheduled, frameCallbacks, viewVars, localStore,
                 storageWritable, now, wrongRun>>

RecordWrong ==
  /\ DOMAIN stats = {"W1"}
  /\ stats["W1"].wrongStreak < MaxSchedStreak
  /\ stats' = [stats EXCEPT !["W1"] = applyWrong(@, now)]
  /\ localStore' = persistWaypointStats(localStore, "W1", applyWrong(stats["W1"], now))
  /\ UNCHANGED flashVars
  /\ lastEvent' = Event("recordWrong", "W1", wrongRun, 0)
  /\ wrongRun' = wrongRun + 1
  /\ UNCHANGED <<inputVars, dataVars, quizVars, renderScheduled, frameCallbacks, viewVars, storageWritable, now>>

RecordCorrect(wrongsBeforeCorrect) ==
  /\ DOMAIN stats = {"W1"}
  /\ stats["W1"].correctStreak < MaxSchedStreak
  /\ stats' = [stats EXCEPT !["W1"] = applyCorrect(@, wrongsBeforeCorrect, now)]
  /\ localStore' = persistWaypointStats(localStore, "W1",
                      applyCorrect(stats["W1"], wrongsBeforeCorrect, now))
  /\ UNCHANGED flashVars
  /\ lastEvent' = Event("recordCorrect", "W1", wrongRun, wrongsBeforeCorrect)
  /\ wrongRun' = 0
  /\ UNCHANGED <<inputVars, dataVars, quizVars, renderScheduled, frameCallbacks, viewVars, storageWritable, now>>

NextScheduler ==
  \/ SchedulerStart
  \/ RecordWrong
  \/ \E n \in 0..3 : RecordCorrect(n)
  \/ Tick

SpecScheduler == InitScheduler /\ [][NextScheduler]_vars

----------------------------------------------------------------------------
(* chooseNextTarget on its own: a pool of up to three candidates whose      *)
(* stats are drawn from StatsSamples, and every excludeId                   *)

\* the stats of a waypoint shown and missed once at time shownAt
Answered(shownAt) == [applyWrong(defaultStats, shownAt) EXCEPT !.seen = TRUE]

\* due a second ago, due right now, never shown, shown but never answered,
\* and answered with 1, 2 and 3 seconds to go
StatsSamples ==
  {Answered(T0 - 21000), Answered(T0 - 20000), defaultStats,
   [defaultStats EXCEPT !.seen = TRUE],
   Answered(T0 - 19000), Answered(T0 - 18000), Answered(T0 - 17000)}

Pools == {<<>>, <<"W1">>, <<"W1", "W2">>, <<"W1", "W2", "W3">>}

InitChoose ==
  /\ loadState = "ready"
  /\ initializationError = None
  /\ firGeoJSON = "FIRmap"
  /\ waypoints = ThreeWaypoints
  /\ recordStats = [w \in AllIds |-> w]
  /\ visibleWaypoints \in Pools
  /\ firOptions = uniqueFIRs(ThreeWaypoints)
  /\ enabledFIRs = Range(firOptions)
  /\ stats \in [AllIds -> StatsSamples]
  /\ currentTarget = None
  /\ targetStats = None
  /\ currentWrongCount = 0
  /\ revealState = NoReveal
  /\ intervalTimers = {}
  /\ renderScheduled = FALSE
  /\ frameCallbacks = 0
  /\ waypointFeedback = NoFeedback
  /\ timeouts = {}
  /\ feedbackObserved = FALSE
  /\ canvas \in CanvasSizes
  /\ projection = "projection"
  /\ epwwBounds = computeRegionBounds("FIRmap", ThreeWaypoints)
  /\ viewport = fitViewToBounds(epwwBounds, canvas)
  /\ localStore = EmptyStore
  /\ storageWritable = TRUE
  /\ now = T0
  /\ lastEvent = OtherEvent
  /\ wrongRun = 0
  /\ InputsIdle

\* one call chooseNextTarget(visibleWaypoints, { excludeId }); the result is
\* kept in currentTarget and the excludeId in lastEvent.wp
Choose(excludeId) ==
  /\ lastEvent.kind = "other"
  /\ currentTarget' \in chooseNextTarget(visibleWaypoints, excludeId, stats, now)
  /\ targetStats' = StatsOfRecord(recordStats, currentTarget')
  /\ UNCHANGED flashVars
  /\ lastEvent' = Event("choose", excludeId, 0, 0)
  /\ UNCHANGED <<inputVars, dataVars, stats, currentWrongCount, revealState, intervalTimers,
                 renderScheduled, frameCallbacks, viewVars, localStore, storageWritable, now, wrongRun>>

NextChoose == \E excludeId \in AllIds \cup {None} : Choose(excludeId)

SpecChoose == InitChoose /\ [][NextChoose]_vars

----------------------------------------------------------------------------
(* mergeStoredStats on its own: the record stored for W1 has any non-empty  *)
(* subset of the stats fields, as older shapes of the record had.           *)

\* the full records the stored shapes are cut from
StoredSamples ==
  {Answered(T0 - 21000), applyCorrect(Answered(T0 - 21000), 1, T0 - 1000),
   [defaultStats EXCEPT !.seen = TRUE]}

StoredShapes ==
  {[f \in D |-> r[f]] : D \in (SUBSET StatFields) \ {{}}, r \in StoredSamples}

InitMerge ==
  /\ loadState = "loading"
  /\ initializationError = None
  /\ firGeoJSON = None
  /\ waypoints = <<>>
  /\ recordStats = NoRecords
  /\ visibleWaypoints = <<>>
  /\ firOptions = <<>>
  /\ enabledFIRs = {}
  /\ stats = [w \in {} |-> defaultStats]
  /\ currentTarget = None
  /\ targetStats = None
  /\ currentWrongCount = 0
  /\ revealState = NoReveal
  /\ intervalTimers = {}
  /\ renderScheduled = TRUE
  /\ frameCallbacks = 1
  /\ waypointFeedback = NoFeedback
  /\ timeouts = {}
  /\ feedbackObserved = FALSE
  /\ viewport = [scale |-> 1, offsetX |-> 0, offsetY |-> 0]
  /\ canvas \in CanvasSizes
  /\ projection = "projection"
  /\ epwwBounds = NoBounds
  /\ \E raw \in StoredShapes :
       localStore = [EmptyStore EXCEPT !.stats["W1"] = raw]
  /\ storageWritable = TRUE
  /\ now = T0
  /\ lastEvent = OtherEvent
  /\ wrongRun = 0
  /\ InputsIdle

\* one call mergeStoredStats([W1]); the merged stats are kept in stats
MergeStored ==
  /\ lastEvent.kind = "other"
  /\ stats' = [w \in {"W1"} |-> mergeStoredStats(localStore.stats[w])]
  /\ UNCHANGED flashVars
  /\ lastEvent' = Event("merge", "W1", 0, 0)
  /\ UNCHANGED <<inputVars, dataVars, quizVars, renderScheduled, frameCallbacks, viewVars, localStore,
                 storageWritable, now, wrongRun>>

NextMerge == MergeStored

SpecMerge == InitMerge /\ [][NextMerge]_vars

TypeOK ==
  /\ loadState \in {"constructed", "loading", "ready", "failed"}
  /\ currentTarget \in AllIds \cup {None}
  /\ currentWrongCount \in Nat
  /\ renderScheduled \in BOOLEAN
  /\ frameCallbacks \in Nat
  /\ DOMAIN recordStats = Range(waypoints)
  /\ targetStats \in AllIds \cup {None}
  /\ DOMAIN waypointFeedback \subseteq AllIds
  /\ \A t \in timeouts : t.id \in AllIds /\ t.due \in Nat
  /\ feedbackObserved \in BOOLEAN
  /\ enabledFIRs \subseteq {"EPWW", "LZBB"}
  /\ lastEvent.kind \in {"other", "expiry", "load", "reload", "merge", "firChange", "tapNoTarget", "tapInert", "tapIgnored",
                          "tapCorrect", "tapWrong", "recordWrong",
                          "recordCorrect", "choose", "wheel", "zoomAt",
                          "pointerDown", "pointerMove", "pointerUp"}
  /\ viewport.scale \in Nat \ {0}
  /\ DOMAIN pointerPositions \subseteq {1, 2}
  /\ pointerState.activeId \in {0, 1, 2}

----------------------------------------------------------------------------
(* Properties *)

Overdue(s, t) == s.hasAnswered /\ s.dueAt <= t

\* C1 (SpecScheduler): after the k-th applyWrong in a row on a waypoint that
\* started from default stats, dueAt - now is 20 s for k = 1, 40 s for k = 2
\* and 60 s for every k >= 3; wrongRun + 1 applyWrong calls have been made
\* since the start or the last applyCorrect.
C1_WrongIntervalTable ==
  lastEvent.kind = "recordWrong" =>
    /\ wrongRun = lastEvent.wrongRun + 1
    /\ stats["W1"].dueAt - now =
         CASE wrongRun = 1 -> 20000
           [] wrongRun = 2 -> 40000
           [] OTHER -> 60000

C1_Witness ==
  lastEvent.kind = "recordWrong" /\ wrongRun >= 4 /\ stats["W1"].dueAt - now = 60000

\* C2 (Spec): a correct judgment that brings the target's correctStreak to 1
\* sets dueAt = now + 5 min when at least one incorrect judgment was made on
\* the target since it became the target, and dueAt = now + 15 min when none
\* was.
C2_CorrectAfterWrongIsFiveMinutes ==
  (lastEvent.kind = "tapCorrect" /\ stats[lastEvent.wp].correctStreak = 1) =>
     stats[lastEvent.wp].dueAt - now =
        IF lastEvent.wrongRun > 0 THEN 5 * 60 * 1000 ELSE 15 * 60 * 1000

C2_Witness ==
  /\ lastEvent.kind = "tapCorrect"
  /\ lastEvent.wrongRun > 0
  /\ stats[lastEvent.wp].dueAt - now = 5 * 60 * 1000

\* C3 (SpecScheduler): after every applyCorrect, dueAt - now is
\* min(base * 1.7^(correctStreak - 1), 2 h) for the post-increment
\* correctStreak, base being 15 min for wrongsBeforeCorrect = 0 and 5 min
\* otherwise; three correct answers in a row with no wrong one give
\* 15 min * 1.7^2 = 2601000 ms, and the interval never exceeds 2 h.
\* (base = b * 10^5 ms and 2 h = 72 * 10^5 ms: base * 1.7^k >= 2 h iff
\* b * 17^k >= 72 * 10^k, and below that k <= 5 and
\* base * 1.7^k = b * 17^k * 10^(5-k).)
C3_CorrectIntervalFormula ==
  lastEvent.kind = "recordCorrect" =>
    LET k == stats["W1"].correctStreak - 1
        b == IF lastEvent.arg = 0 THEN 9 ELSE 3
        d == stats["W1"].dueAt - now
    IN /\ d <= 7200000
       /\ IF b * Pow(17, k) >= 72 * Pow(10, k)
          THEN d = 7200000
          ELSE k <= 5 /\ d = b * Pow(17, k) * Pow(10, 5 - k)
       /\ (k = 2 /\ lastEvent.arg = 0) => d = 2601000

C3_Witness ==
  /\ lastEvent.kind = "recordCorrect"
  /\ lastEvent.arg = 0
  /\ stats["W1"].correctStreak = 5
  /\ stats["W1"].dueAt - now = 7200000

\* C4 (Spec): in every reachable state every waypoint has wrongStreak = 0 or
\* correctStreak = 0; right after a correct judgment the judged waypoint has
\* wrongStreak = 0 and right after an incorrect one it has correctStreak = 0.
C4_StreaksMutuallyExclusive ==
  /\ \A w \in DOMAIN stats : stats[w].wrongStreak = 0 \/ stats[w].correctStreak = 0
  /\ lastEvent.kind = "tapCorrect" =>
       stats[lastEvent.wp].wrongStreak = 0 /\ stats[lastEvent.wp].correctStreak > 0
  /\ lastEvent.kind = "tapWrong" =>
       stats[lastEvent.wp].correctStreak = 0 /\ stats[lastEvent.wp].wrongStreak > 0

\* an incorrect judgment on a waypoint whose stored stats (which the failing
\* store could not overwrite) still show the correct answer before it
C4_Witness ==
  /\ lastEvent.kind = "tapWrong"
  /\ stats[lastEvent.wp].wrongStreak = 1
  /\ localStore.stats[lastEvent.wp] # NoRec
  /\ localStore.stats[lastEvent.wp].correctStreak > 0

\* the candidates of the last chooseNextTarget call that are not excluded
Candidates == Range(visibleWaypoints) \ {lastEvent.wp}

\* C5 (SpecChoose): when a candidate (other than excludeId) is overdue,
\* chooseNextTarget returns an overdue waypoint, however many unseen and
\* answered-not-due candidates there are.
C5_OverdueFirst ==
  (lastEvent.kind = "choose" /\ \E w \in Candidates : Overdue(stats[w], now)) =>
     currentTarget \in Candidates /\ Overdue(stats[currentTarget], now)

C5_Witness ==
  /\ lastEvent.kind = "choose"
  /\ currentTarget # None
  /\ Overdue(stats[currentTarget], now)
  /\ \E w \in Candidates : ~stats[w].seen
  /\ \E w \in Candidates : stats[w].hasAnswered /\ stats[w].dueAt > now

\* C6 (SpecChoose): when no candidate is overdue and some candidate is
\* unseen, chooseNextTarget returns an unseen waypoint.
C6_UnseenBeforeAnswered ==
  (/\ lastEvent.kind = "choose"
   /\ \A w \in Candidates : ~Overdue(stats[w], now)
   /\ \E w \in Candidates : ~stats[w].seen) =>
     currentTarget \in Candidates /\ ~stats[currentTarget].seen

C6_Witness ==
  /\ lastEvent.kind = "choose"
  /\ currentTarget # None
  /\ ~stats[currentTarget].seen
  /\ \A w \in Candidates : ~Overdue(stats[w], now)
  /\ \E w \in Candidates : stats[w].seen /\ stats[w].hasAnswered

RepeatsBeforeCoverage ==
  /\ currentTarget' # currentTarget
  /\ currentTarget' \in DOMAIN stats
  /\ stats[currentTarget'].seen
  /\ \E w \in Range(visibleWaypoints) : ~stats[w].seen

\* C8 as stated (SpecFixedFIR): no waypoint becomes the current target again
\* while a visible waypoint is still unseen.
C8_CoverageBeforeRepetition == [][~RepeatsBeforeCoverage]_vars

\* C8 amended (SpecFixedFIR): a waypoint becomes the current target again
\* while a visible waypoint is still unseen only if it is overdue
\* (hasAnswered and dueAt <= now) when it is chosen.
C8_RepetitionOnlyWhenOverdue ==
  [][RepeatsBeforeCoverage => Overdue(stats[currentTarget'], now)]_vars

\* an overdue waypoint has just become the target again, one is still unseen
C8_Witness ==
  /\ lastEvent.kind = "tapCorrect"
  /\ currentTarget # None
  /\ Overdue(stats[currentTarget], now)
  /\ \E w \in Range(visibleWaypoints) : ~stats[w].seen

\* C9 (Spec): once three incorrect judgments in a row have been made against
\* the current target the session is revealing, and right after a correct
\* judgment the consecutive-wrong counter is 0 and the session is not
\* revealing.
C9_RevealAfterThreeWrongs ==
  /\ (currentTarget # None /\ wrongRun >= 3) => revealState.active
  /\ lastEvent.kind = "tapWrong" => currentWrongCount = wrongRun
  /\ lastEvent.kind = "tapCorrect" => currentWrongCount = 0 /\ ~revealState.active

\* a correct judgment made while revealing
C9_Witness ==
  /\ lastEvent.kind = "tapCorrect"
  /\ lastEvent.wrongRun = 3
  /\ ~revealState.active

\* C10 (Spec): while revealing, a tap near a visible waypoint but not within
\* tolerance of the target leaves every waypoint's stats, the
\* consecutive-wrong counter, the target, the reveal state and the store
\* unchanged.
C10_IgnoredTapChangesNothing ==
  [][lastEvent'.kind = "tapIgnored" =>
       UNCHANGED <<stats, currentWrongCount, currentTarget, revealState, intervalTimers,
                   localStore>>]_vars

C10_Witness == lastEvent.kind = "tapIgnored" /\ revealState.active

\* C11 (Spec): a tap made while a target exists, with no visible waypoint
\* within tolerance of it, leaves the stats of every waypoint, the
\* consecutive-wrong counter, the target, the reveal state and the store
\* unchanged.
C11_InertTapChangesNothing ==
  [][lastEvent'.kind = "tapInert" =>
       UNCHANGED <<stats, currentWrongCount, currentTarget, revealState, intervalTimers,
                   localStore>>]_vars

\* an inert tap made after an incorrect judgment, which a penalty would show on
C11_Witness ==
  /\ lastEvent.kind = "tapInert"
  /\ lastEvent.tapped = None
  /\ currentWrongCount > 0

\* C12 (Spec): a tap made while a target exists applies applyCorrect to the
\* target exactly when the tap is within tolerance of the target (the event
\* kind "tapCorrect"), also when findTappedWaypoint returned another, nearer
\* waypoint; a tap that is near a visible waypoint but not within tolerance
\* of the target, outside reveal mode, applies applyWrong.
C12_CorrectIffWithinToleranceOfTarget ==
  [][lastEvent'.kind \in {"tapInert", "tapIgnored", "tapWrong", "tapCorrect"} =>
       /\ lastEvent'.kind = "tapCorrect" <=>
            stats'[currentTarget] = applyCorrect(stats[currentTarget], currentWrongCount, now)
       /\ lastEvent'.kind = "tapWrong" <=>
            stats'[currentTarget] = applyWrong(stats[currentTarget], now)]_vars

\* a correct judgment of a tap that was nearer to another visible waypoint
C12_Witness ==
  /\ lastEvent.kind = "tapCorrect"
  /\ lastEvent.tapped # None
  /\ lastEvent.tapped # lastEvent.wp
  /\ stats[lastEvent.wp].correctStreak > 0

\* C13 (Spec): an incorrect judgment changes the stats of the target and of
\* no other waypoint, in memory and in the store; the waypoint the tap was
\* nearest to is never the target and keeps its stats.
C13_WrongMutatesTargetOnly ==
  [][lastEvent'.kind = "tapWrong" =>
       /\ lastEvent'.tapped \in DOMAIN stats \ {currentTarget}
       /\ stats'[currentTarget] = applyWrong(stats[currentTarget], now)
       /\ \A w \in DOMAIN stats \ {currentTarget} :
             stats'[w] = stats[w] /\ localStore'.stats[w] = localStore.stats[w]]_vars

\* an incorrect judgment of a tap on another waypoint, whose stats show no
\* answer
C13_Witness ==
  /\ lastEvent.kind = "tapWrong"
  /\ lastEvent.tapped \in DOMAIN stats \ {lastEvent.wp}
  /\ stats[lastEvent.wp].wrongStreak > 0
  /\ ~stats[lastEvent.tapped].hasAnswered

\* C14 (SpecFixedFIR): right after a correct judgment the current target is
\* not the waypoint that was just answered, and when there is a current
\* target its stats have seen = TRUE.
C14_NextTargetIsAnotherAndSeen ==
  lastEvent.kind = "tapCorrect" =>
    /\ currentTarget # lastEvent.wp
    /\ currentTarget # None => stats[currentTarget].seen

\* the answered waypoint and the new target are both answered and not due,
\* and the answered one is due no later than the new target
C14_Witness ==
  /\ lastEvent.kind = "tapCorrect"
  /\ currentTarget # None
  /\ stats[currentTarget].seen
  /\ stats[currentTarget].hasAnswered
  /\ stats[currentTarget].dueAt > now
  /\ stats[lastEvent.wp].dueAt <= stats[currentTarget].dueAt
  /\ \A w \in DOMAIN stats : stats[w].seen

\* C15 (Spec): after a completed load there is no current target exactly
\* when no region is enabled or no waypoint is visible; with a visible
\* waypoint there is always a current target, also after a correct answer
\* with a single visible waypoint.
C15_IdleIffNothingVisible ==
  loadState = "ready" =>
    (currentTarget = None <=> (enabledFIRs = {} \/ Len(visibleWaypoints) = 0))

\* the region of the target was disabled by the step, or the step left no
\* visible waypoint
TargetRegionDisabled ==
  currentTarget # None /\ FirOf(currentTarget) \notin enabledFIRs'

\* C16 as stated (Spec): a change of the enabled set that disables the
\* region of the current target, or leaves no waypoint visible, clears the
\* current target.
C16_InvalidatedTargetIsCleared ==
  [][(lastEvent'.kind = "firChange"
        /\ (TargetRegionDisabled \/ Len(visibleWaypoints') = 0)) =>
       currentTarget' = None]_vars

\* C16 amended (Spec): a change of the enabled set that leaves no waypoint
\* visible clears the current target and ends reveal mode; one that disables
\* the region of the current target and leaves waypoints visible makes a
\* visible waypoint the target and sets the consecutive-wrong counter to 0;
\* one that keeps the target's region enabled keeps the target and the
\* counter.
C16_InvalidatedTargetIsReplaced ==
  [][lastEvent'.kind = "firChange" =>
       /\ Len(visibleWaypoints') = 0 =>
            currentTarget' = None /\ ~revealState'.active
       /\ (TargetRegionDisabled /\ Len(visibleWaypoints') > 0) =>
            /\ currentTarget' \in Range(visibleWaypoints')
            /\ FirOf(currentTarget') \in enabledFIRs'
            /\ currentWrongCount' = 0
       /\ (currentTarget # None /\ ~TargetRegionDisabled) =>
            UNCHANGED <<currentTarget, currentWrongCount>>]_vars

\* the region of a target with wrong answers on it was disabled and the
\* waypoint of the other region is the target now
C16_Witness ==
  /\ lastEvent.kind = "firChange"
  /\ lastEvent.wp # None
  /\ FirOf(lastEvent.wp) \notin enabledFIRs
  /\ stats[lastEvent.wp].wrongStreak > 0
  /\ currentTarget # None
  /\ currentTarget # lastEvent.wp

\* C17 (Spec): in every reachable state, so after every load, resize and
\* region-selection change, the visible waypoints are exactly the loaded
\* waypoints whose region is enabled, each once; with no region enabled no
\* waypoint is visible.
C17_VisibleAreTheEnabledRegions ==
  /\ Range(visibleWaypoints) = {w \in Range(waypoints) : FirOf(w) \in enabledFIRs}
  /\ Len(visibleWaypoints) = Cardinality(Range(visibleWaypoints))
  /\ enabledFIRs = {} => visibleWaypoints = <<>>

\* one of two loaded regions is enabled after a selection change
C17_Witness ==
  /\ lastEvent.kind = "firChange"
  /\ enabledFIRs = {"LZBB"}
  /\ Len(waypoints) = 2
  /\ visibleWaypoints = <<"W2">>

\* C18 (SpecReload): right after a load that found a non-empty proper subset
\* of the available regions in the store, the enabled set is that subset.
C18_EnabledSetSurvivesReload ==
  (/\ lastEvent.kind = "load"
   /\ localStore.fir # <<>>
   /\ Range(localStore.fir) # Range(firOptions)
   /\ Range(localStore.fir) \subseteq Range(firOptions)) =>
     enabledFIRs = Range(localStore.fir)

\* C19 (SpecMerge): a stored record without the fields hasAnswered and seen
\* and with a non-zero dueAt, lastShownAt, correctStreak or wrongStreak is
\* merged to hasAnswered = TRUE and seen = TRUE.
C19_LegacyRecordIsBackFilled ==
  LET raw == localStore.stats["W1"]
  IN (/\ lastEvent.kind = "merge"
      /\ "hasAnswered" \notin DOMAIN raw
      /\ "seen" \notin DOMAIN raw
      /\ \E f \in {"dueAt", "lastShownAt", "correctStreak", "wrongStreak"} :
            f \in DOMAIN raw /\ raw[f] # 0) =>
        stats["W1"].hasAnswered /\ stats["W1"].seen

\* C20 (Spec): what a judgment, a markWaypointSeen and a region-selection
\* change leave in memory is determined by the state in memory before them,
\* whether the store takes writes or throws on every write: applyWrong and
\* applyCorrect are applied to the target, the counter is stepped or reset,
\* reveal mode starts at the third wrong answer and ends at a correct one,
\* the redraw is requested, and the waypoint that becomes the target is
\* marked seen.  A store that throws keeps its contents.
C20_FailedWriteKeepsMemory ==
  [][/\ ~storageWritable => localStore' = localStore
     /\ lastEvent'.kind = "tapWrong" =>
          /\ stats' = [stats EXCEPT ![currentTarget] = applyWrong(@, now)]
          /\ currentWrongCount' = currentWrongCount + 1
          /\ currentTarget' = currentTarget
          /\ currentWrongCount + 1 >= 3 => revealState'.active
          /\ renderScheduled'
     /\ lastEvent'.kind = "tapCorrect" =>
          /\ stats'[currentTarget] = applyCorrect(stats[currentTarget], currentWrongCount, now)
          /\ currentWrongCount' = 0
          /\ ~revealState'.active
          /\ renderScheduled'
     /\ lastEvent'.kind = "firChange" =>
          /\ enabledFIRs' \subseteq Range(firOptions)
          /\ Range(visibleWaypoints') = {w \in Range(waypoints) : FirOf(w) \in enabledFIRs'}
          /\ renderScheduled'
     /\ (lastEvent'.kind \in {"tapCorrect", "firChange", "load"} /\ currentTarget' # None) =>
          stats'[currentTarget'].seen]_vars

\* the third wrong answer in a row with a store that throws: nothing is
\* stored for the target, reveal mode is on
C20_Witness ==
  /\ ~storageWritable
  /\ lastEvent.kind = "tapWrong"
  /\ localStore.stats[lastEvent.wp] = NoRec
  /\ stats[lastEvent.wp].wrongStreak = 3
  /\ stats[lastEvent.wp].seen
  /\ revealState.active

\* C21 (Spec): a failed load leaves the boundary data, the waypoint list, the
\* visible list and the stats empty and no current target; from then on the
\* session stays failed, and no event, a tap in particular, changes the
\* data, the stats, the target, the counter, the reveal state or the store.
C21_FailedLoadAdoptsNothing ==
  [][/\ loadState' = "failed" =>
          /\ firGeoJSON' = None
          /\ waypoints' = <<>>
          /\ visibleWaypoints' = <<>>
          /\ DOMAIN stats' = {}
          /\ currentTarget' = None
          /\ initializationError' # None
     /\ loadState = "failed" =>
          /\ loadState' = "failed"
          /\ UNCHANGED <<firGeoJSON, waypoints, visibleWaypoints, enabledFIRs, stats,
                         quizVars, localStore>>]_vars

\* a tap made after a failed load
C21_Witness ==
  /\ loadState = "failed"
  /\ lastEvent.kind = "tapNoTarget"
  /\ currentTarget = None

----------------------------------------------------------------------------
\* C22: Pan and zoom stay live whatever the quiz does: once the page has
\* loaded, and so in Idle and after a failed data load, a wheel turn leaves
\* the scale at the clamped product of the scale and the wheel factor, a move
\* of a pinch leaves it at the clamped product of the scale at the start of
\* the pinch and the ratio of the finger distances, and a move of the
\* dragging pointer shifts both offsets by the move.
QuizInert == loadState = "failed" \/ (loadState = "ready" /\ currentTarget = None)

----------------------------------------------------------------------------
\* C23 as stated: while neither the boundary data nor the waypoint list
\* holds a coordinate, projection is none and a wheel turn or a tap changes
\* nothing.
NoCoordinates == firGeoJSON = None /\ waypoints = <<>>
TapKinds == {"tapNoTarget", "tapInert", "tapIgnored", "tapCorrect", "tapWrong"}

----------------------------------------------------------------------------
\* C24: in every reachable state the viewport scale lies between MIN_SCALE
\* and MAX_SCALE.
C24_ScaleWithinLimits == MIN_SCALE <= viewport.scale /\ viewport.scale <= MAX_SCALE

----------------------------------------------------------------------------
\* C25: under the scale limits 7000 and 25000, a zoomAt with factor 10
\* leaves the scale at the upper limit from whatever viewport it is called,
\* and a zoomAt with factor 1/10000 following it leaves the scale at the
\* lower limit.
C25_ZoomClampsEndToEnd ==
  [][/\ (lastEvent'.kind = "zoomAt" /\ lastEvent'.factor = Rat(10, 1)) =>
           viewport'.scale = MAX_SCALE_3
     /\ (/\ lastEvent.kind = "zoomAt" /\ lastEvent.factor = Rat(10, 1)
         /\ lastEvent'.kind = "zoomAt" /\ lastEvent'.factor = Rat(1, 10000)) =>
           viewport'.scale = MIN_SCALE_3]_vars

----------------------------------------------------------------------------
\* C26: zoomAt is point-anchored: the world point under (px, py) before a
\* wheel turn is under (px, py) after it; and when the clamped scale equals
\* the current scale, the viewport is unchanged and no redraw is requested.
C26_ZoomIsPointAnchored ==
  [][(lastEvent'.kind = "wheel" /\ projection # None) =>
       LET px == RatOf(lastEvent'.px)
           py == RatOf(lastEvent'.py)
           under == screenToWorld(px, py, viewport)
           after == worldToScreen(under, viewport')
           clamped == clampScaleIn(RatMul(RatOf(viewport.scale), lastEvent'.factor),
                                   MIN_SCALE, MAX_SCALE)
       IN /\ after.x = px
          /\ after.y = py
          /\ clamped = RatOf(viewport.scale) =>
                UNCHANGED <<viewport, renderScheduled>>
          /\ clamped # RatOf(viewport.scale) =>
                viewport'.scale # viewport.scale /\ renderScheduled']_vars

\* a wheel turn over W1 has doubled the fitted scale and W1 is still under the pointer
C26_Witness ==
  /\ lastEvent.kind = "wheel"
  /\ loadState = "ready"
  /\ lastEvent.factor = Rat(2, 1)
  /\ viewport.scale = 2 * fitViewToBounds(epwwBounds, canvas).scale
  /\ viewport.offsetX # fitViewToBounds(epwwBounds, canvas).offsetX
  /\ lastEvent.px = ScreenX("W1", viewport)
  /\ lastEvent.py = ScreenY("W1", viewport)

----------------------------------------------------------------------------
\* C27: under every viewport reachable by pan, zoom and fit, screenToWorld
\* undoes worldToScreen exactly, for planar points with whole and with
\* fractional coordinates.
PlanarPoints ==
  {[x |-> Rat(PlanarX(w), WorldDen), y |-> Rat(PlanarY(w), WorldDen)] : w \in AllIds}
    \cup {[x |-> RatOf(0), y |-> RatOf(0)], [x |-> Rat(1, 3), y |-> Rat(-2, 7)],
          [x |-> RatOf(-5), y |-> Rat(22, 7)]}

C27_ScreenToWorldUndoesWorldToScreen ==
  \A p \in PlanarPoints :
     LET onScreen == worldToScreen(p, viewport)
     IN screenToWorld(onScreen.x, onScreen.y, viewport) = p

\* the map was fitted, zoomed by the wheel and then dragged
C27_Witness ==
  /\ loadState = "ready"
  /\ lastEvent.kind = "pointerMove"
  /\ panState.active
  /\ viewport.scale \notin {1, fitViewToBounds(epwwBounds, canvas).scale}
  /\ pointerPositions[1].x # pointerState.startX
  /\ viewport.offsetX # 0

----------------------------------------------------------------------------
\* C28: whatever the wheel has made of the scale, the planar tolerance times
\* the scale is the screen tolerance of 18 px, and a tap that reaches the
\* judging with a target is judged correct exactly when it lies within 18 px
\* of the target's screen position; so a tap on that position is.
C28_ToleranceIsConstantOnScreen ==
  [][(lastEvent'.kind \in TapKinds \ {"tapNoTarget"} /\ pointerTrace'.tapAt = PerfNow') =>
       LET onScreen == worldToScreen([x |-> Rat(PlanarX(currentTarget), WorldDen),
                                      y |-> Rat(PlanarY(currentTarget), WorldDen)], viewport)
           dx == RatSub(RatOf(pointerTrace'.tapX), onScreen.x)
           dy == RatSub(RatOf(pointerTrace'.tapY), onScreen.y)
       IN /\ RatMul(toleranceWorld(viewport), RatOf(viewport.scale)) = RatOf(tolerancePx)
          /\ (lastEvent'.kind = "tapCorrect")
               <=> RatLE(RatAdd(RatMul(dx, dx), RatMul(dy, dy)), RatOf(tolerancePx * tolerancePx))]_vars

\* after a wheel turn that doubled the fitted scale, a tap on the target's
\* screen position was judged correct
C28_Witness ==
  /\ lastEvent.kind = "tapCorrect"
  /\ lastEvent.wp = "W1"
  /\ viewport.scale = 2 * fitViewToBounds(epwwBounds, canvas).scale
  /\ pointerTrace.tapX = ScreenX("W1", viewport)
  /\ pointerTrace.tapY = ScreenY("W1", viewport)

----------------------------------------------------------------------------
\* C29 as stated: a pointer-up calls the judging exactly when the pointer
\* never went further than the drag threshold from where it went down and
\* the cooldown has passed since the previous accepted tap, if there was
\* one; a pointer-up that does not call it changes no statistics, counter or
\* target.
Lifted == DOMAIN pointerPositions \ DOMAIN pointerPositions'
Judged == lastEvent'.kind \in TapKinds

C29_TapIffQuietAndCooledDown ==
  [][\A id \in Lifted :
       /\ Judged <=> /\ ~pointerTrace.down[id].far
                     /\ \/ pointerTrace.tapAt = -1
                        \/ PerfNow - pointerTrace.tapAt >= TAP_COOLDOWN_MS
       /\ ~Judged => UNCHANGED <<stats, quizVars, localStore>>]_vars

\* C29, amended: a pointer-up calls the judging exactly when the pointer was
\* alone on the canvas all the time it was down, never went further than the
\* drag threshold from where it went down, and the cooldown has passed since
\* the previous accepted tap or, when there was none, since the time origin
\* of the page; a pointer-up that does not call it changes no statistics,
\* counter or target, and leaves no pan active once no pointer is down.
C29_TapIffAloneQuietAndCooledDown ==
  [][\A id \in Lifted :
       /\ Judged <=> /\ ~pointerTrace.down[id].multi
                     /\ ~pointerTrace.down[id].far
                     /\ PerfNow - (IF pointerTrace.tapAt = -1 THEN 0 ELSE pointerTrace.tapAt)
                          >= TAP_COOLDOWN_MS
       /\ ~Judged => UNCHANGED <<stats, quizVars, localStore>>
       /\ (~Judged /\ DOMAIN pointerPositions' = {}) => ~panState'.active]_vars

\* a second tap was accepted, the cooldown after the first one having passed
C29_Witness ==
  /\ lastEvent.kind \in TapKinds
  /\ pointerTrace.tapAt = PerfNow
  /\ PerfNow >= 2 * TAP_COOLDOWN_MS
  /\ \E w \in DOMAIN stats : stats[w].hasAnswered

----------------------------------------------------------------------------
\* C30 as stated: every pointer move of a two-pointer pinch leaves the scale
\* at the clamped product of the scale before the move and the ratio of the
\* current finger distance to the distance at the start of the pinch.
PinchMove ==
  /\ lastEvent'.kind = "pointerMove"
  /\ pinchState.active
  /\ DOMAIN pointerPositions = {1, 2}
FingerDistance == Max2(Abs(pointerPositions'[1].x - pointerPositions'[2].x), 1)
FingerMidpoint ==
  [x |-> Rat(pointerPositions'[1].x + pointerPositions'[2].x, 2),
   y |-> Rat(pointerPositions'[1].y + pointerPositions'[2].y, 2)]

C30_PinchScalesTheCurrentScale ==
  [][PinchMove =>
       RatOf(viewport'.scale)
         = clampScaleIn(RatMul(RatOf(viewport.scale),
                               Rat(FingerDistance, pinchState.startDistance)),
                        MIN_SCALE, MAX_SCALE)]_vars

\* C30, amended: every pointer move of a two-pointer pinch leaves the scale
\* at the clamped product of the scale at the start of the pinch and the
\* ratio of the current finger distance to the distance at the start of the
\* pinch, and keeps the world point under the fingers' midpoint there; the
\* start scale and the start distance are taken when the second pointer goes
\* down and are not changed by the moves.
C30_PinchScalesTheStartScale ==
  [][/\ PinchMove =>
          LET under == screenToWorld(FingerMidpoint.x, FingerMidpoint.y, viewport)
          IN /\ RatOf(viewport'.scale)
                  = clampScaleIn(RatMul(RatOf(pinchState.startScale),
                                        Rat(FingerDistance, pinchState.startDistance)),
                                 MIN_SCALE, MAX_SCALE)
             /\ worldToScreen(under, viewport') = FingerMidpoint
             /\ pinchState'.startScale = pinchState.startScale
             /\ pinchState'.startDistance = pinchState.startDistance
     /\ (~pinchState.active /\ pinchState'.active) =>
          /\ pinchState'.startScale = viewport.scale
          /\ pinchState'.startDistance = FingerDistance
          /\ UNCHANGED viewport]_vars

\* the second move of a pinch brought the fingers back to their starting
\* distance and the scale back to the scale at the start of the pinch
C30_Witness ==
  /\ loadState = "ready"
  /\ lastEvent.kind = "pointerMove"
  /\ pinchState.active
  /\ pointerTrace.moves = 2
  /\ Abs(pointerPositions[1].x - pointerPositions[2].x) = pinchState.startDistance
  /\ viewport.scale = pinchState.startScale
  /\ viewport.offsetX # fitViewToBounds(epwwBounds, canvas).offsetX

----------------------------------------------------------------------------
\* C31: when one of two pinching pointers is lifted, the pinch ends, nothing
\* is judged, the viewport stays, and the pointer that stays down becomes
\* the active dragging pointer with the pan anchored where it is; every
\* later move of it shifts both offsets by its own displacement and leaves
\* the scale alone.
C31_RemainingPointerPans ==
  [][/\ (pinchState.active /\ DOMAIN pointerPositions = {1, 2} /\ Lifted # {}) =>
          \A rest \in DOMAIN pointerPositions' :
             /\ ~pinchState'.active
             /\ ~Judged
             /\ pointerState'.activeId = rest
             /\ pointerState'.isDragging
             /\ panState' = [active |-> TRUE, lastX |-> pointerPositions[rest].x,
                                              lastY |-> pointerPositions[rest].y]
             /\ UNCHANGED <<viewport, stats, quizVars>>
     /\ \A id \in DOMAIN pointerPositions :
          (/\ lastEvent'.kind = "pointerMove"
           /\ DOMAIN pointerPositions = {id}
           /\ pointerTrace.down[id].multi) =>
             /\ viewport'.offsetX - viewport.offsetX
                  = pointerPositions'[id].x - pointerPositions[id].x
             /\ viewport'.offsetY - viewport.offsetY
                  = pointerPositions'[id].y - pointerPositions[id].y
             /\ viewport'.scale = viewport.scale]_vars

\* one finger was lifted out of a pinch and the other one has dragged the map
C31_Witness ==
  \E id \in DOMAIN pointerPositions :
    /\ DOMAIN pointerPositions = {id}
    /\ pointerTrace.down[id].multi
    /\ lastEvent.kind = "pointerMove"
    /\ pointerState.activeId = id
    /\ pointerState.isDragging
    /\ panState.active
    /\ ~pinchState.active
    /\ pointerPositions[id].x # pointerState.startX

----------------------------------------------------------------------------
----------------------------------------------------------------------------
\* C33: the reveal interval timer is live exactly while reveal mode is
\* active. In every state at most one interval timer is live, and it is the
\* one revealState holds when reveal is active and none otherwise; a step
\* that keeps reveal active keeps the same timer, a step that ends reveal
\* leaves no timer, and the blink callback only ever runs while reveal is
\* active.
C33_BlinkTimerIffRevealActive ==
  /\ [](/\ Cardinality(intervalTimers) <= 1
         /\ (revealState.active <=> intervalTimers # {})
         /\ (revealState.active => intervalTimers = {revealState.timerId})
         /\ (~revealState.active => revealState.timerId = 0))
  /\ [][/\ ((revealState.active /\ revealState'.active) => UNCHANGED intervalTimers)
         /\ ((revealState.active /\ ~revealState'.active) => intervalTimers' = {})
         /\ ((revealState'.visible # revealState.visible /\ revealState'.active)
               => revealState.active)]_vars

\* reveal was left by emptying the enabled set (the counter still shows the
\* three wrong taps that started it) and no timer is live
C33_Witness ==
  /\ lastEvent.kind = "firChange"
  /\ enabledFIRs = {}
  /\ currentWrongCount >= 3
  /\ ~revealState.active
  /\ intervalTimers = {}

----------------------------------------------------------------------------
\* a step takes the flash off the waypoint
FlashRemoved(w) == w \in DOMAIN waypointFeedback /\ w \notin DOMAIN waypointFeedback'

\* C34 as stated: every flash on a waypoint is eventually taken off, the
\* step that takes it off is the run of a flash timer of that waypoint and
\* leaves a redraw requested, and no step takes a flash off before its
\* expiresAt.
C34_FlashRemovedByItsExpiry ==
  /\ \A w \in AllIds : (w \in DOMAIN waypointFeedback) ~> (w \notin DOMAIN waypointFeedback)
  /\ [][\A w \in AllIds : FlashRemoved(w) =>
            /\ waypointFeedback[w].expiresAt <= now
            /\ lastEvent'.kind = "expiry" /\ lastEvent'.wp = w
            /\ renderScheduled']_vars

\* C34, amended: every flash on a waypoint is eventually taken off; the step
\* that takes it off comes no earlier than its expiresAt, and is either the
\* run of a flash timer of that waypoint, which leaves a redraw requested,
\* or a frame, whose drawWaypoints drops expired flashes itself; a flash is
\* otherwise only replaced by a new flash of the full duration.
C34_FlashRemovedWhenExpired ==
  /\ \A w \in AllIds : (w \in DOMAIN waypointFeedback) ~> (w \notin DOMAIN waypointFeedback)
  /\ [][\A w \in AllIds :
          /\ FlashRemoved(w) =>
               /\ waypointFeedback[w].expiresAt <= now
               /\ \/ lastEvent'.kind = "expiry" /\ lastEvent'.wp = w /\ renderScheduled'
                  \/ frameCallbacks' < frameCallbacks
          /\ (/\ w \in DOMAIN waypointFeedback /\ w \in DOMAIN waypointFeedback'
              /\ waypointFeedback'[w] # waypointFeedback[w]) =>
               waypointFeedback'[w].expiresAt = now + revealFlashMs]_vars

\* the timer of an earlier flash has run and left the later flash of the
\* same waypoint, which has not expired yet, in place
C34_Witness ==
  /\ lastEvent.kind = "expiry"
  /\ lastEvent.wp \in DOMAIN waypointFeedback
  /\ waypointFeedback[lastEvent.wp].expiresAt > now

----------------------------------------------------------------------------
\* the answered-not-due candidates of the call the last "choose" event made,
\* and whether the call picked among them
ChosenFromC(excludeId) ==
  LET pool == Pool(visibleWaypoints, excludeId)
  IN /\ Len(pool) > 0
     /\ SelectedGroup(Group(pool, stats, now, "A"), Group(pool, stats, now, "B"),
                      Group(pool, stats, now, "C")) = "C"
CandidatesC(excludeId) == Range(Group(Pool(visibleWaypoints, excludeId), stats, now, "C"))

\* C35: when chooseNextTarget picks from group C, it returns a member of
\* group C whose dueAt is less than 2000 ms above the dueAt of every member,
\* so a candidate due 2000 ms or more after the earliest is never returned.
C35_GroupCWithinJitterOfEarliest ==
  [][(lastEvent'.kind = "choose" /\ ChosenFromC(lastEvent'.wp)) =>
       /\ currentTarget' \in CandidatesC(lastEvent'.wp)
       /\ \A w \in CandidatesC(lastEvent'.wp) :
            stats[currentTarget'].dueAt < stats[w].dueAt + JitterMs]_vars

\* a call picked from three answered-not-due candidates, one of them due
\* 2000 ms after the earliest, and returned one that is not the earliest
C35_Witness ==
  /\ lastEvent.kind = "choose"
  /\ ChosenFromC(lastEvent.wp)
  /\ Cardinality(CandidatesC(lastEvent.wp)) = 3
  /\ \E w, x \in CandidatesC(lastEvent.wp) :
       /\ stats[x].dueAt >= stats[w].dueAt + JitterMs
       /\ stats[currentTarget].dueAt > stats[w].dueAt

----------------------------------------------------------------------------
\* C36: reveal mode is active only when there is a current target and the
\* consecutive-wrong counter is at least 3, and right after a region
\* selection change that replaced the target the session is not revealing.
C36_RevealOnlyAfterThreeWrongs ==
  /\ revealState.active => (currentTarget # None /\ currentWrongCount >= 3)
  /\ (lastEvent.kind = "firChange" /\ currentTarget # lastEvent.wp) => ~revealState.active

----------------------------------------------------------------------------
\* C37: whenever there is a current target, its region is enabled and it is
\* in the visible list.
C37_TargetEnabledAndVisible ==
  currentTarget # None =>
    /\ FirOf(currentTarget) \in enabledFIRs
    /\ currentTarget \in Range(visibleWaypoints)

\* after a judged tap on the target, a region change took the target's
\* region away and a target of the region still enabled was chosen
C37_Witness ==
  /\ lastEvent.kind = "firChange"
  /\ lastEvent.wp # None
  /\ stats[lastEvent.wp].hasAnswered
  /\ currentTarget # None
  /\ currentTarget # lastEvent.wp
  /\ FirOf(lastEvent.wp) \notin enabledFIRs

----------------------------------------------------------------------------
\* C38: a resize loses no judgment. Every waypoint record holds a stats
\* object, and the record of the list that has the target's id holds the
\* very object the record currentTarget refers to holds, however many times
\* the records were rebuilt since the target was chosen; so the judgment a
\* tap books on currentTarget is read back through the list's record.
C38_ResizeKeepsJudgments ==
  /\ [](/\ \A w \in Range(waypoints) : recordStats[w] \in DOMAIN stats
         /\ (currentTarget # None =>
               (currentTarget \in Range(visibleWaypoints)
                /\ recordStats[currentTarget] = targetStats)))
  /\ [][lastEvent'.kind \in {"tapCorrect", "tapWrong"} =>
          LET before == stats[recordStats[lastEvent'.wp]]
              after == stats'[recordStats'[lastEvent'.wp]]
          IN /\ after.hasAnswered
             /\ after.lastShownAt = now
             /\ (lastEvent'.kind = "tapWrong" => after = applyWrong(before, now))
             /\ (lastEvent'.kind = "tapCorrect" =>
                   [after EXCEPT !.seen = before.seen]
                     = applyCorrect(before, lastEvent'.arg, now))]_vars

\* a wrong judgment was booked after the window was made smaller under the
\* target chosen at load: no answer has been correct, so the target has not
\* changed since
C38_Witness ==
  /\ canvas.width = 400
  /\ lastEvent.kind = "tapWrong"
  /\ currentTarget # None
  /\ stats[recordStats[currentTarget]].wrongStreak >= 1
  /\ \A w \in DOMAIN stats : stats[w].correctStreak = 0

----------------------------------------------------------------------------
\* C39: a pointer that shared the canvas with another pointer at some time
\* since it went down is never judged when it is lifted, whether it is the
\* first of the two to go or the one that stayed: the step calls no judging,
\* records no tap time and leaves statistics, counter, target and store as
\* they are.
C39_TwoPointerGestureNeverJudges ==
  [][\A id \in Lifted :
       pointerTrace.down[id].multi =>
         /\ ~Judged
         /\ pointerState'.lastTapTime = pointerState.lastTapTime
         /\ UNCHANGED <<stats, quizVars, localStore>>]_vars

\* the two pointers of a pinch, the only pointers that went down since the
\* page loaded, are both lifted again, the last one with a target to judge
\* and the cooldown passed, and no tap was ever judged
C39_Witness ==
  /\ lastEvent.kind = "pointerUp"
  /\ DOMAIN pointerPositions = {}
  /\ pinchState.startScale # IdlePinchState.startScale
  /\ ~pinchState.active
  /\ pointerTrace.inputs = 2
  /\ pointerTrace.tapAt = -1
  /\ currentTarget # None
  /\ PerfNow >= TAP_COOLDOWN_MS
  /\ stats[currentTarget].hasAnswered = FALSE

----------------------------------------------------------------------------
\* C40: the counter of consecutive wrong answers on the target is always
\* between 0 and 3, and so is the value handed to applyCorrect; whenever that
\* value is above 0 the judged waypoint leaves applyCorrect with
\* correctStreak = 1 and is due exactly 5 minutes later.
C40_WrongsBeforeCorrectGiveStreakOne ==
  /\ currentWrongCount \in 0..3
  /\ (lastEvent.kind = "tapCorrect") => (lastEvent.arg \in 0..3)
  /\ (lastEvent.kind = "tapCorrect" /\ lastEvent.arg > 0) =>
       /\ stats[lastEvent.wp].correctStreak = 1
       /\ stats[lastEvent.wp].wrongStreak = 0
       /\ stats[lastEvent.wp].dueAt = now + correctWithWrongMs

\* a correct answer given while the target was being revealed, after three
\* wrong ones: the counter handed over is 3 and is back at 0 afterwards
C40_Witness ==
  /\ lastEvent.kind = "tapCorrect"
  /\ lastEvent.arg = 3
  /\ currentWrongCount = 0
  /\ ~revealState.active
  /\ stats[lastEvent.wp].correctStreak = 1
  /\ stats[lastEvent.wp].dueAt = now + correctWithWrongMs

=============================================================================
